---- MODULE Spec2Model ----
(***************************************************************************)
(* Model of the Cloudflare Terraform provider code in src/unnamed/part_000:*)
(*   - the WAF rules data source (dataSourceCloudflareWAFRulesRead),       *)
(*   - the Access Group condition transcoder (BuildAccessGroupCondition,   *)
(*     TransformAccessGroupForSchema),                                     *)
(*   - the Access Group resource handlers (create/read/update/delete/      *)
(*     import).                                                            *)
(* Each part has its own specification over the shared variables; the      *)
(* variables of the other parts stay at their initial value.               *)
(***************************************************************************)
EXTENDS Integers, Sequences, FiniteSets, TLC

VARIABLES
    zone,      \* WAF: the remote zone, package ID -> rule list
    wafCfg,    \* WAF: the data source's configuration (filter, package_id)
    waf,       \* WAF: the state of one dataSourceCloudflareWAFRulesRead call
    tin,       \* transcoder: the input drawn for the function under check
    tout,      \* transcoder: the position and results of the functions applied
    d,         \* Access Group resource: the schema.ResourceData of the resource
    last       \* Access Group resource: what the last handler call did and returned

vars == <<zone, wafCfg, waf, tin, tout, d, last>>

\* IDs are strings written as sequences of characters (Import splits one).
EmptyID == <<>>

\* The resource before any handler ran, and the record of no handler call.
NewResource ==
    [id |-> EmptyID, name |-> "", account_id |-> EmptyID,
     require |-> <<>>, exclude |-> <<>>, include |-> <<>>]
NoError == [err |-> FALSE, msg |-> ""]
\* No answer of the API: the call was not made.
NoAnswer ==
    [status |-> "none",
     group |-> [ID |-> EmptyID, Name |-> "", Require |-> <<>>, Exclude |-> <<>>,
                Include |-> <<>>]]
\* No configuration: the handler takes none.
NoCfg == [name |-> "", require |-> <<>>, exclude |-> <<>>, include |-> <<>>]
NoCall ==
    [id |-> EmptyID, op |-> "none", ident |-> [err |-> TRUE, Type |-> "", Value |-> ""],
     cfg |-> NoCfg, resp |-> NoAnswer, readResp |-> NoAnswer, ret |-> NoError,
     calls |-> <<>>, errs |-> <<>>, sets |-> <<>>]

\* An interface{} value of the schema form with its dynamic type:
\* [t |-> "bool" | "string" | "list" | "map" | "nil", v |-> the value].
Bool(b) == [t |-> "bool", v |-> b]
Str(x) == [t |-> "string", v |-> x]
List(q) == [t |-> "list", v |-> q]
Map(m) == [t |-> "map", v |-> m]
Nil == [t |-> "nil", v |-> FALSE]

StrList(q) == List([i \in 1..Len(q) |-> Str(q[i])])

(***************************************************************************)
(* Helpers                                                                 *)
(***************************************************************************)

\* All sequences over S of length at most n.
RECURSIVE SeqsUpTo(_, _)
SeqsUpTo(S, n) ==
    IF n = 0 THEN {<<>>}
    ELSE LET shorter == SeqsUpTo(S, n - 1)
         IN  shorter \cup {Append(q, x) : q \in {s \in shorter : Len(s) = n - 1}, x \in S}

\* The concatenation of a sequence of sequences.
RECURSIVE Flatten(_)
Flatten(qq) == IF qq = <<>> THEN <<>> ELSE Head(qq) \o Flatten(Tail(qq))

(***************************************************************************)
(* WAF rules data source                                                   *)
(***************************************************************************)

\* Bound: the total number of rules held by the packages of the zone.
MaxRules == 2

\* The packages of the zone, in the order ListWAFPackages returns them.
ZonePackages == <<"p1", "p2", "p3">>

GroupIDs == {"g1", "g2"}
Modes == {"on", "off"}
\* Rule descriptions and filter patterns are strings, written as sequences of
\* characters; "(" alone is a pattern regexp.Compile rejects.
Descriptions == {<<"b">>, <<"b", "a">>}
Patterns == {<<>>, <<"a">>, <<"(">>}

\* A remote rule without its ID (the ID is its place in the zone).
RemoteRules == [Description : Descriptions, Mode : Modes, Group : GroupIDs]

\* Every assignment of rule lists to the packages pkgs holding at most n rules.
RECURSIVE ZonesOf(_, _)
ZonesOf(pkgs, n) ==
    IF pkgs = <<>> THEN {<<>>}
    ELSE UNION { { <<l>> \o rest : rest \in ZonesOf(Tail(pkgs), n - Len(l)) }
                 : l \in SeqsUpTo(RemoteRules, n) }

PackageIndex(id) == CHOOSE i \in 1..Len(ZonePackages) : ZonePackages[i] = id

\* client.ListWAFRules(ctx, zoneID, pkg.ID) when it succeeds: the rules of the
\* package, each with its ID.
ListWAFRules(pkgID) ==
    LET p == PackageIndex(pkgID)
    IN  [j \in 1..Len(zone[p]) |->
            [ID |-> <<pkgID, j>>, Description |-> zone[p][j].Description,
             Mode |-> zone[p][j].Mode, Group |-> zone[p][j].Group]]

\* regexp.Compile, for the patterns of the model: a literal compiles, an
\* unbalanced parenthesis does not.
CompileOK(pat) == \A i \in 1..Len(pat) : pat[i] # "("

\* (*Regexp).Match for a literal pattern: the pattern occurs in the text.
Match(pat, text) ==
    \E i \in 0..(Len(text) - Len(pat)) :
        \A j \in 1..Len(pat) : text[i + j] = pat[j]

NoRegexp == [pat |-> <<>>, set |-> FALSE]

\* The filter configuration d.Get("filter"): no block, or one block holding
\* any of the keys description, mode, group_id.
FilterKeys == {"description", "mode", "group_id"}
FilterBlocks ==
    UNION { { [k \in K |-> IF k = "description" THEN pat
                           ELSE IF k = "mode" THEN "on" ELSE "g1"]
              : pat \in (IF "description" \in K THEN Patterns ELSE {<<>>}) }
            : K \in SUBSET FilterKeys }
FilterCfgs == {<<>>} \cup {<<m>> : m \in FilterBlocks}

\* expandFilterWAFRules: [err, filter].  A nil block gives the same filter as a
\* block without keys, which stands for it here.
expandFilterWAFRules(cfg) ==
    LET empty == [Description |-> NoRegexp, Mode |-> "", GroupID |-> ""]
    IN  IF Len(cfg) = 0 THEN [err |-> FALSE, filter |-> empty]
        ELSE LET m == cfg[1]
                 hasD == "description" \in DOMAIN m
             IN  IF hasD /\ ~CompileOK(m["description"])
                 THEN [err |-> TRUE, filter |-> empty]
                 ELSE [err |-> FALSE,
                       filter |->
                         [Description |-> IF hasD
                                          THEN [pat |-> m["description"], set |-> TRUE]
                                          ELSE NoRegexp,
                          Mode |-> IF "mode" \in DOMAIN m THEN m["mode"] ELSE "",
                          GroupID |-> IF "group_id" \in DOMAIN m THEN m["group_id"] ELSE ""]]

\* The record appended to ruleDetails for a rule that passed the filters.
RuleDetail(rule, pkgID) ==
    [id |-> rule.ID, description |-> rule.Description, mode |-> rule.Mode,
     group_id |-> rule.Group, package_id |-> pkgID]

\* A faulty variant of ScanRule: the mode filter is not applied.
ScanRuleIgnoresMode(f, rule, pkgID, acc) ==
    IF f.GroupID # "" /\ f.GroupID # rule.Group THEN acc
    ELSE LET acc1 == IF f.GroupID # "" THEN [acc EXCEPT !.foundGroup = TRUE] ELSE acc
         IN  IF f.Description.set /\ ~Match(f.Description.pat, rule.Description) THEN acc1
             ELSE [acc1 EXCEPT !.ruleDetails = Append(@, RuleDetail(rule, pkgID)),
                               !.ruleIds = Append(@, rule.ID)]

\* A faulty variant of ScanRule: foundGroup is set only for a rule that passes every filter.
ScanRuleFoundAfterFilters(f, rule, pkgID, acc) ==
    IF f.GroupID # "" /\ f.GroupID # rule.Group THEN acc
    ELSE IF f.Description.set /\ ~Match(f.Description.pat, rule.Description) THEN acc
    ELSE IF f.Mode # "" /\ f.Mode # rule.Mode THEN acc
    ELSE [acc EXCEPT !.foundGroup = (f.GroupID # ""),
                     !.ruleDetails = Append(@, RuleDetail(rule, pkgID)),
                     !.ruleIds = Append(@, rule.ID)]

\* A faulty variant of ScanRule: foundGroup is set for every rule that passes the group
\* filter, also when no group_id is given.
ScanRuleFoundWithoutGroup(f, rule, pkgID, acc) ==
    IF f.GroupID # "" /\ f.GroupID # rule.Group THEN acc
    ELSE LET acc1 == [acc EXCEPT !.foundGroup = TRUE]
         IN  IF f.Description.set /\ ~Match(f.Description.pat, rule.Description) THEN acc1
             ELSE IF f.Mode # "" /\ f.Mode # rule.Mode THEN acc1
             ELSE [acc1 EXCEPT !.ruleDetails = Append(@, RuleDetail(rule, pkgID)),
                               !.ruleIds = Append(@, rule.ID)]

\* A faulty variant of ScanRule: the ID of a rule is recorded before the
\* description and mode filters are applied.
ScanRuleIdOfRejected(f, rule, pkgID, acc) ==
    IF f.GroupID # "" /\ f.GroupID # rule.Group THEN acc
    ELSE LET acc1 == [acc EXCEPT !.foundGroup = @ \/ f.GroupID # "",
                                 !.ruleIds = Append(@, rule.ID)]
         IN  IF f.Description.set /\ ~Match(f.Description.pat, rule.Description) THEN acc1
             ELSE IF f.Mode # "" /\ f.Mode # rule.Mode THEN acc1
             ELSE [acc1 EXCEPT !.ruleDetails = Append(@, RuleDetail(rule, pkgID))]

\* One iteration of the inner loop (for _, rule := range ruleList): acc is
\* [foundGroup, ruleDetails, ruleIds].
ScanRule(f, rule, pkgID, acc) ==
    IF f.GroupID # "" /\ f.GroupID # rule.Group THEN acc
    ELSE LET acc1 == IF f.GroupID # "" THEN [acc EXCEPT !.foundGroup = TRUE] ELSE acc
         IN  IF f.Description.set /\ ~Match(f.Description.pat, rule.Description) THEN acc1
             ELSE IF f.Mode # "" /\ f.Mode # rule.Mode THEN acc1
             ELSE [acc1 EXCEPT !.ruleDetails = Append(@, RuleDetail(rule, pkgID)),
                               !.ruleIds = Append(@, rule.ID)]

\* The inner loop over ruleList, from rule i on.
RECURSIVE ScanRules(_, _, _, _, _)
ScanRules(f, ruleList, pkgID, i, acc) ==
    IF i > Len(ruleList) THEN acc
    ELSE ScanRules(f, ruleList, pkgID, i + 1, ScanRule(f, ruleList[i], pkgID, acc))

WAFIdle ==
    [id |-> <<>>,               \* d.SetId(stringListChecksum(...)), with idSet
     err |-> "",                \* the error returned, "" for none
     calls |-> <<>>,            \* the API calls made, in order
     filter |-> [Description |-> NoRegexp, Mode |-> "", GroupID |-> ""],
     ruleDetails |-> <<>>, ruleIds |-> <<>>,
     pc |-> "start", pkgList |-> <<>>, next |-> 1,
     rulesSet |-> FALSE, rules |-> <<>>,   \* d.Set("rules", ...)
     idSet |-> FALSE]

\* Lines 104-125: expand the filter, then resolve the packages to scan.
WAFReadFilterFails ==
    /\ waf.pc = "start"
    /\ expandFilterWAFRules(wafCfg.filter).err
    /\ waf' = [waf EXCEPT !.pc = "error", !.err = "regexp"]
    /\ UNCHANGED <<zone, wafCfg, tin, tout, d, last>>

\* A faulty variant of WAFReadPackages: the packages of the zone are listed
\* and scanned also when package_id is given.
WAFReadPackagesAlwaysLists ==
    /\ waf.pc = "start"
    /\ ~expandFilterWAFRules(wafCfg.filter).err
    /\ LET f == expandFilterWAFRules(wafCfg.filter).filter IN
       \E ok \in BOOLEAN :
          waf' = IF ok
                 THEN [waf EXCEPT !.pc = "scan", !.filter = f,
                                  !.calls = Append(@, <<"ListWAFPackages">>),
                                  !.pkgList = ZonePackages]
                 ELSE [waf EXCEPT !.pc = "error", !.filter = f,
                                  !.calls = Append(@, <<"ListWAFPackages">>),
                                  !.err = "ListWAFPackages"]
    /\ UNCHANGED <<zone, wafCfg, tin, tout, d, last>>

WAFReadPackages ==
    /\ waf.pc = "start"
    /\ ~expandFilterWAFRules(wafCfg.filter).err
    /\ LET f == expandFilterWAFRules(wafCfg.filter).filter IN
       IF wafCfg.package_id = ""
       THEN \E ok \in BOOLEAN :
              waf' = IF ok
                     THEN [waf EXCEPT !.pc = "scan", !.filter = f,
                                      !.calls = Append(@, <<"ListWAFPackages">>),
                                      !.pkgList = ZonePackages]
                     ELSE [waf EXCEPT !.pc = "error", !.filter = f,
                                      !.calls = Append(@, <<"ListWAFPackages">>),
                                      !.err = "ListWAFPackages"]
       ELSE waf' = [waf EXCEPT !.pc = "scan", !.filter = f,
                               !.pkgList = <<wafCfg.package_id>>]
    /\ UNCHANGED <<zone, wafCfg, tin, tout, d, last>>

\* A faulty variant of WAFScanPackage: when ListWAFRules fails, the rules
\* collected so far are stored before the error is returned.
WAFScanPackageKeepingRules ==
    /\ waf.pc = "scan"
    /\ waf.next <= Len(waf.pkgList)
    /\ LET pkgID == waf.pkgList[waf.next]
           call == <<"ListWAFRules", pkgID>>
       IN  \E ok \in BOOLEAN :
             IF ~ok
             THEN waf' = [waf EXCEPT !.pc = "error", !.err = "ListWAFRules",
                                     !.calls = Append(@, call),
                                     !.rulesSet = TRUE, !.rules = waf.ruleDetails]
             ELSE LET acc == ScanRules(waf.filter, ListWAFRules(pkgID), pkgID, 1,
                                       [foundGroup |-> FALSE,
                                        ruleDetails |-> waf.ruleDetails,
                                        ruleIds |-> waf.ruleIds])
                  IN  waf' = [waf EXCEPT !.calls = Append(@, call),
                                         !.ruleDetails = acc.ruleDetails,
                                         !.ruleIds = acc.ruleIds,
                                         !.next = IF acc.foundGroup
                                                  THEN Len(waf.pkgList) + 1
                                                  ELSE waf.next + 1]
    /\ UNCHANGED <<zone, wafCfg, tin, tout, d, last>>

\* Lines 130-175: one iteration of the loop over pkgList.
WAFScanPackage ==
    /\ waf.pc = "scan"
    /\ waf.next <= Len(waf.pkgList)
    /\ LET pkgID == waf.pkgList[waf.next]
           call == <<"ListWAFRules", pkgID>>
       IN  \E ok \in BOOLEAN :
             IF ~ok
             THEN waf' = [waf EXCEPT !.pc = "error", !.err = "ListWAFRules",
                                     !.calls = Append(@, call)]
             ELSE LET acc == ScanRules(waf.filter, ListWAFRules(pkgID), pkgID, 1,
                                       [foundGroup |-> FALSE,
                                        ruleDetails |-> waf.ruleDetails,
                                        ruleIds |-> waf.ruleIds])
                  IN  waf' = [waf EXCEPT !.calls = Append(@, call),
                                         !.ruleDetails = acc.ruleDetails,
                                         !.ruleIds = acc.ruleIds,
                                         !.next = IF acc.foundGroup
                                                  THEN Len(waf.pkgList) + 1
                                                  ELSE waf.next + 1]
    /\ UNCHANGED <<zone, wafCfg, tin, tout, d, last>>

\* Lines 177-183: store the rules and the synthetic ID.
WAFReadFinish ==
    /\ waf.pc = "scan"
    /\ waf.next > Len(waf.pkgList)
    /\ waf' = [waf EXCEPT !.pc = "done", !.rulesSet = TRUE, !.rules = waf.ruleDetails,
                          !.idSet = TRUE, !.id = waf.ruleIds]
    /\ UNCHANGED <<zone, wafCfg, tin, tout, d, last>>

TranscoderIdle ==
    [group |-> <<>>, pc |-> "idle", order |-> <<>>, json |-> <<>>, data |-> <<>>]

InitWAF ==
    /\ zone \in ZonesOf(ZonePackages, MaxRules)
    /\ wafCfg \in [filter : FilterCfgs, package_id : {"", "p2"}]
    /\ waf = WAFIdle
    /\ tin = <<>>
    /\ tout = TranscoderIdle
    /\ d = NewResource
    /\ last = NoCall

NextWAF ==
    \/ WAFReadFilterFails
    \/ WAFReadPackages
    \/ WAFScanPackage
    \/ WAFReadFinish

SpecWAF == InitWAF /\ [][NextWAF]_vars

(***************************************************************************)
(* Access Group conditions: the API (JSON) form                             *)
(*                                                                         *)
(* A condition of the API form is a map with one key, the kind's JSON name, *)
(* holding the map of the kind's fields; it is written [k |-> key,          *)
(* v |-> fields].  The boolean kinds hold no field.                         *)
(***************************************************************************)

\* Bound: the number of conditions of a list given to
\* TransformAccessGroupForSchema.
MaxConds == 2

NoFields == [f \in {} |-> ""]
Cond(key, fields) == [v |-> fields, k |-> key]

BoolKinds == {"everyone", "any_valid_service_token", "certificate"}

\* The field that carries the value of a one-field kind in the API form.
FieldOf ==
    [group |-> "id", email |-> "email", email_domain |-> "domain",
     ip |-> "ip", service_token |-> "token_id", geo |-> "country_code",
     login_method |-> "id", device_posture |-> "integration_uid",
     common_name |-> "common_name", auth_method |-> "auth_method"]
ListKinds == {"email", "email_domain", "ip", "service_token", "group", "geo",
              "login_method", "device_posture"}
StringKinds == {"common_name", "auth_method"}

Values == {"a", "b"}
ProviderIDs == {"p", "q"}

\* The conditions the API may return, by kind.
ApiConds ==
    {Cond(k, NoFields) : k \in BoolKinds}
    \cup {Cond(k, (FieldOf[k] :> x)) : k \in ListKinds, x \in Values}
    \cup {Cond(k, (FieldOf[k] :> x)) : k \in StringKinds, x \in Values \cup {""}}
    \cup {Cond("okta", [name |-> x, identity_provider_id |-> i])
            : x \in Values, i \in ProviderIDs \cup {""}}
    \cup {Cond("gsuite", [email |-> x, identity_provider_id |-> i])
            : x \in Values, i \in ProviderIDs \cup {""}}
    \cup {Cond("azureAD", [id |-> x, identity_provider_id |-> i])
            : x \in Values, i \in ProviderIDs \cup {""}}
    \cup {Cond("github-organization", [name |-> n, identity_provider_id |-> i])
            : n \in {"", "n", "m"}, i \in {"", "p"}}
    \cup {Cond("github-organization", [name |-> n, identity_provider_id |-> i, team |-> x])
            : n \in {"", "n", "m"}, x \in Values, i \in {"", "p"}}
    \cup {Cond("saml", [identity_provider_id |-> "p", attribute_name |-> n,
                        attribute_value |-> x])
            : n \in {"", "n", "m"}, x \in {"", "a"}}
    \cup {Cond("external_evaluation", [evaluate_url |-> n, keys_url |-> x])
            : n \in {"", "n", "m"}, x \in {"", "a"}}
    \cup {Cond("unknown_kind", [x |-> "a"])}

(***************************************************************************)
(* TransformAccessGroupForSchema                                           *)
(***************************************************************************)

\* The values of a map of fields, as the range loop visits them (the maps of
\* the model that are ranged over hold one field).
MapValues(m) ==
    IF DOMAIN m = {} THEN <<>> ELSE <<m[CHOOSE f \in DOMAIN m : TRUE]>>

\* Lines 592-615: the accumulators before the scan.
TransformStart ==
    [data |-> <<>>, emails |-> <<>>, emailDomains |-> <<>>, ips |-> <<>>,
     serviceTokens |-> <<>>, groups |-> <<>>, commonName |-> "", authMethod |-> "",
     geos |-> <<>>, loginMethod |-> <<>>, oktaID |-> "", oktaGroups |-> <<>>,
     gsuiteID |-> "", gsuiteEmails |-> <<>>, githubName |-> "", githubTeams |-> <<>>,
     githubID |-> "", azureID |-> "", azureIDs |-> <<>>, samlAttrName |-> "",
     samlAttrValue |-> "", externalEvaluationURL |-> "",
     externalEvaluationKeysURL |-> "", devicePostureRuleIDs |-> <<>>]

\* A faulty variant of LastOf: a value already set is kept.
FirstOf(old, vals) == IF old # "" \/ vals = <<>> THEN old ELSE vals[Len(vals)]

\* for _, x := range groupValue { name = x }: the last value visited, or the
\* old value when there is none.
LastOf(old, vals) == IF vals = <<>> THEN old ELSE vals[Len(vals)]

\* A faulty variant of AppendAll: the values are put in front of the accumulated ones.
PrependAll(old, vals) == vals \o old

\* for _, x := range groupValue { xs = append(xs, x) }.
AppendAll(old, vals) == old \o vals

\* Lines 619-693: the switch on groupKey for one key of one condition.
TransformKey(acc, groupKey, groupValue) ==
    CASE groupKey \in {"everyone", "any_valid_service_token", "certificate"} ->
            [acc EXCEPT !.data = Append(@, [v |-> TRUE, k |-> groupKey])]
      [] groupKey = "email" ->
            [acc EXCEPT !.emails = AppendAll(@, MapValues(groupValue))]
      [] groupKey = "email_domain" ->
            [acc EXCEPT !.emailDomains = AppendAll(@, MapValues(groupValue))]
      [] groupKey = "ip" ->
            [acc EXCEPT !.ips = AppendAll(@, MapValues(groupValue))]
      [] groupKey = "service_token" ->
            [acc EXCEPT !.serviceTokens = AppendAll(@, MapValues(groupValue))]
      [] groupKey = "common_name" ->
            [acc EXCEPT !.commonName = LastOf(@, MapValues(groupValue))]
      [] groupKey = "auth_method" ->
            [acc EXCEPT !.authMethod = LastOf(@, MapValues(groupValue))]
      [] groupKey = "geo" ->
            [acc EXCEPT !.geos = AppendAll(@, MapValues(groupValue))]
      [] groupKey = "login_method" ->
            [acc EXCEPT !.loginMethod = AppendAll(@, MapValues(groupValue))]
      [] groupKey = "okta" ->
            [acc EXCEPT !.oktaID = groupValue["identity_provider_id"],
                        !.oktaGroups = Append(@, groupValue["name"])]
      [] groupKey = "gsuite" ->
            [acc EXCEPT !.gsuiteID = groupValue["identity_provider_id"],
                        !.gsuiteEmails = Append(@, groupValue["email"])]
      [] groupKey = "github-organization" ->
            [acc EXCEPT !.githubID = groupValue["identity_provider_id"],
                        !.githubName = groupValue["name"],
                        !.githubTeams = IF "team" \in DOMAIN groupValue
                                        THEN Append(@, groupValue["team"]) ELSE @]
      [] groupKey = "azureAD" ->
            [acc EXCEPT !.azureID = groupValue["identity_provider_id"],
                        !.azureIDs = Append(@, groupValue["id"])]
      [] groupKey = "saml" ->
            [acc EXCEPT !.samlAttrName = groupValue["attribute_name"],
                        !.samlAttrValue = groupValue["attribute_value"]]
      [] groupKey = "external_evaluation" ->
            [acc EXCEPT !.externalEvaluationURL = groupValue["evaluate_url"],
                        !.externalEvaluationKeysURL = groupValue["keys_url"]]
      [] groupKey = "group" ->
            [acc EXCEPT !.groups = AppendAll(@, MapValues(groupValue))]
      [] groupKey = "device_posture" ->
            [acc EXCEPT !.devicePostureRuleIDs = AppendAll(@, MapValues(groupValue))]
      [] OTHER -> acc

\* A faulty variant of TransformScan: the conditions are scanned from the last
\* to the first.
RECURSIVE TransformScanBackwards(_, _, _)
TransformScanBackwards(acc, accessGroup, i) ==
    IF i > Len(accessGroup) THEN acc
    ELSE TransformKey(TransformScanBackwards(acc, accessGroup, i + 1),
                      accessGroup[i].k, accessGroup[i].v)

\* Lines 617-695: the scan of the conditions, from condition i on.
RECURSIVE TransformScan(_, _, _)
TransformScan(acc, accessGroup, i) ==
    IF i > Len(accessGroup) THEN acc
    ELSE TransformScan(TransformKey(acc, accessGroup[i].k, accessGroup[i].v),
                       accessGroup, i + 1)

Entry(key, value) == [v |-> value, k |-> key]
EntryIf(cond, key, value) == IF cond THEN <<Entry(key, value)>> ELSE <<>>

\* A faulty variant of TransformEmit: the ip entry is emitted before the email entry.
TransformEmitSwapped(acc) ==
    acc.data
    \o EntryIf(Len(acc.ips) > 0, "ip", acc.ips)
    \o EntryIf(Len(acc.emails) > 0, "email", acc.emails)
    \o EntryIf(Len(acc.emailDomains) > 0, "email_domain", acc.emailDomains)
    \o EntryIf(Len(acc.serviceTokens) > 0, "service_token", acc.serviceTokens)
    \o EntryIf(acc.commonName # "", "common_name", acc.commonName)
    \o EntryIf(acc.authMethod # "", "auth_method", acc.authMethod)
    \o EntryIf(Len(acc.geos) > 0, "geo", acc.geos)
    \o EntryIf(Len(acc.loginMethod) > 0, "login_method", acc.loginMethod)
    \o EntryIf(Len(acc.oktaGroups) > 0 /\ acc.oktaID # "", "okta",
               <<[name |-> acc.oktaGroups, identity_provider_id |-> acc.oktaID]>>)
    \o EntryIf(Len(acc.gsuiteEmails) > 0 /\ acc.gsuiteID # "", "gsuite",
               <<[email |-> acc.gsuiteEmails, identity_provider_id |-> acc.gsuiteID]>>)
    \o EntryIf(acc.githubID # "" /\ acc.githubName # "", "github",
               <<[name |-> acc.githubName, identity_provider_id |-> acc.githubID,
                  teams |-> acc.githubTeams]>>)
    \o EntryIf(Len(acc.azureIDs) > 0 /\ acc.azureID # "", "azure",
               <<[id |-> acc.azureIDs, identity_provider_id |-> acc.azureID]>>)
    \o EntryIf(acc.samlAttrName # "" /\ acc.samlAttrValue # "", "saml",
               <<[attribute_name |-> acc.samlAttrName,
                  attribute_value |-> acc.samlAttrValue]>>)
    \o EntryIf(acc.externalEvaluationURL # "" /\ acc.externalEvaluationKeysURL # "",
               "external_evaluation",
               <<[evaluate_url |-> acc.externalEvaluationURL,
                  keys_url |-> acc.externalEvaluationKeysURL]>>)
    \o EntryIf(Len(acc.groups) > 0, "group", acc.groups)
    \o EntryIf(Len(acc.devicePostureRuleIDs) > 0, "device_posture",
               acc.devicePostureRuleIDs)

\* A faulty variant of TransformEmit: the accumulators are emitted whether empty or not.
TransformEmitUnguarded(acc) ==
    acc.data
    \o <<Entry("email", acc.emails), Entry("email_domain", acc.emailDomains),
         Entry("ip", acc.ips), Entry("service_token", acc.serviceTokens),
         Entry("common_name", acc.commonName), Entry("auth_method", acc.authMethod),
         Entry("geo", acc.geos), Entry("login_method", acc.loginMethod),
         Entry("group", acc.groups),
         Entry("device_posture", acc.devicePostureRuleIDs)>>

\* Lines 697-818: one entry per non-empty accumulator, in source order, after
\* the entries already in data.
TransformEmit(acc) ==
    acc.data
    \o EntryIf(Len(acc.emails) > 0, "email", acc.emails)
    \o EntryIf(Len(acc.emailDomains) > 0, "email_domain", acc.emailDomains)
    \o EntryIf(Len(acc.ips) > 0, "ip", acc.ips)
    \o EntryIf(Len(acc.serviceTokens) > 0, "service_token", acc.serviceTokens)
    \o EntryIf(acc.commonName # "", "common_name", acc.commonName)
    \o EntryIf(acc.authMethod # "", "auth_method", acc.authMethod)
    \o EntryIf(Len(acc.geos) > 0, "geo", acc.geos)
    \o EntryIf(Len(acc.loginMethod) > 0, "login_method", acc.loginMethod)
    \o EntryIf(Len(acc.oktaGroups) > 0 /\ acc.oktaID # "", "okta",
               <<[name |-> acc.oktaGroups, identity_provider_id |-> acc.oktaID]>>)
    \o EntryIf(Len(acc.gsuiteEmails) > 0 /\ acc.gsuiteID # "", "gsuite",
               <<[email |-> acc.gsuiteEmails, identity_provider_id |-> acc.gsuiteID]>>)
    \o EntryIf(acc.githubID # "" /\ acc.githubName # "", "github",
               <<[name |-> acc.githubName, identity_provider_id |-> acc.githubID,
                  teams |-> acc.githubTeams]>>)
    \o EntryIf(Len(acc.azureIDs) > 0 /\ acc.azureID # "", "azure",
               <<[id |-> acc.azureIDs, identity_provider_id |-> acc.azureID]>>)
    \o EntryIf(acc.samlAttrName # "" /\ acc.samlAttrValue # "", "saml",
               <<[attribute_name |-> acc.samlAttrName,
                  attribute_value |-> acc.samlAttrValue]>>)
    \o EntryIf(acc.externalEvaluationURL # "" /\ acc.externalEvaluationKeysURL # "",
               "external_evaluation",
               <<[evaluate_url |-> acc.externalEvaluationURL,
                  keys_url |-> acc.externalEvaluationKeysURL]>>)
    \o EntryIf(Len(acc.groups) > 0, "group", acc.groups)
    \o EntryIf(Len(acc.devicePostureRuleIDs) > 0, "device_posture",
               acc.devicePostureRuleIDs)

\* A faulty variant of TransformAccessGroupForSchema: a boolean kind met again
\* gives no second entry.
TransformMergingFlags(accessGroup) ==
    LET out == TransformEmit(TransformScan(TransformStart, accessGroup, 1))
        RECURSIVE Once(_)
        Once(i) ==
            IF i > Len(out) THEN <<>>
            ELSE (IF \E j \in 1..(i - 1) : out[j].k = out[i].k /\ out[i].k \in BoolKinds
                  THEN <<>> ELSE <<out[i]>>) \o Once(i + 1)
    IN  Once(1)

TransformAccessGroupForSchema(accessGroup) ==
    TransformEmit(TransformScan(TransformStart, accessGroup, 1))

\* The transcoder's position and results: the iteration order drawn for the
\* input map, the variants built, their API form, and the schema form.
TranscoderAt(pc, order, group, json, data) ==
    [group |-> group, pc |-> pc, order |-> order, json |-> json, data |-> data]

\* A list of API conditions is given to TransformAccessGroupForSchema.
ApplyTransform ==
    /\ tout.pc = "idle"
    /\ tout' = TranscoderAt("transformed", <<>>, <<>>, tin,
                            TransformAccessGroupForSchema(tin))
    /\ UNCHANGED <<zone, wafCfg, waf, tin, d, last>>

InitTransform ==
    /\ tin \in SeqsUpTo(ApiConds, MaxConds)
    /\ tout = TranscoderIdle
    /\ zone = [i \in 1..Len(ZonePackages) |-> <<>>]
    /\ wafCfg = [filter |-> <<>>, package_id |-> ""]
    /\ waf = WAFIdle
    /\ d = NewResource
    /\ last = NoCall

NextTransform == ApplyTransform

SpecTransform == InitTransform /\ [][NextTransform]_vars

(***************************************************************************)
(* Access Group conditions: the schema form given to                       *)
(* BuildAccessGroupCondition                                               *)
(*                                                                         *)
(* A block is a map from condition kind to an interface{} value.  A value   *)
(* carries its dynamic type, since the code decides by type assertion:      *)
(* [t |-> "bool" | "string" | "list" | "map", v |-> the value].             *)
(***************************************************************************)

\* Bound: the size of a block, counted in values (a boolean, a string, an
\* element of a list, a provider block, and an empty list count one each).
MaxSize == 2

ProviderKinds == {"gsuite", "azure", "okta"}
\* The key of a provider block that lists its sub-values.
SubKey == [okta |-> "name", gsuite |-> "email", azure |-> "id"]

SupportedKinds ==
    BoolKinds \cup StringKinds \cup ListKinds \cup ProviderKinds
    \cup {"github", "saml", "external_evaluation"}

\* The kinds in the order in which the blocks of the model are enumerated.
KindList ==
    <<"everyone", "any_valid_service_token", "certificate", "common_name",
      "auth_method", "email", "email_domain", "ip", "service_token", "group",
      "geo", "login_method", "device_posture", "gsuite", "azure", "okta",
      "github", "saml", "external_evaluation">>

\* The provider blocks of a kind holding at most n values.
CfgsOf(kind, n) ==
    IF n < 1 THEN {}
    ELSE IF kind \in ProviderKinds
    THEN {Map((SubKey[kind] :> StrList(q)) @@ ("identity_provider_id" :> Str(i)))
            : q \in SeqsUpTo(Values, n - 1), i \in ProviderIDs}
    ELSE IF kind = "github"
    THEN {Map([name |-> Str("n"), identity_provider_id |-> Str(i), teams |-> StrList(q)])
            : q \in SeqsUpTo(Values, n - 1), i \in ProviderIDs}
    ELSE IF kind = "saml"
    THEN {Map([identity_provider_id |-> Str(i), attribute_name |-> Str("n"),
               attribute_value |-> Str("a")]) : i \in ProviderIDs}
    ELSE {Map([evaluate_url |-> Str("n"), keys_url |-> Str("a")])}

CfgSize(cfg) ==
    1 + (IF "teams" \in DOMAIN cfg.v THEN Len(cfg.v["teams"].v)
         ELSE IF "email" \in DOMAIN cfg.v THEN Len(cfg.v["email"].v)
         ELSE IF "id" \in DOMAIN cfg.v THEN Len(cfg.v["id"].v)
         ELSE IF "name" \in DOMAIN cfg.v /\ cfg.v["name"].t = "list"
              THEN Len(cfg.v["name"].v)
         ELSE 0)

\* The non-empty lists of provider blocks of a kind holding n values at most.
RECURSIVE CfgListsOf(_, _)
CfgListsOf(kind, n) ==
    {<<>>} \cup
    UNION { { <<c>> \o rest : rest \in CfgListsOf(kind, n - CfgSize(c)) }
            : c \in CfgsOf(kind, n) }

\* The well-formed values of a kind of size n at most.
KindValues(kind, n) ==
    IF n < 1 THEN {}
    ELSE IF kind \in BoolKinds THEN {Bool(TRUE), Bool(FALSE)}
    ELSE IF kind \in StringKinds THEN {Str(""), Str("a")}
    ELSE IF kind \in ListKinds THEN {StrList(q) : q \in SeqsUpTo(Values, n)}
    ELSE {List(q) : q \in CfgListsOf(kind, n)}

RECURSIVE SumSizes(_)
SumSizes(cfgs) == IF cfgs = <<>> THEN 0 ELSE CfgSize(Head(cfgs)) + SumSizes(Tail(cfgs))

ValueSize(kind, val) ==
    IF val.t # "list" \/ val.v = <<>> THEN 1
    ELSE IF kind \in ListKinds THEN Len(val.v)
    ELSE SumSizes(val.v)

EmptyBlock == [k \in {} |-> Bool(FALSE)]

\* The well-formed blocks over the kinds of the list kinds, of size n at most.
RECURSIVE BlocksOf(_, _)
BlocksOf(kinds, n) ==
    IF kinds = <<>> THEN {EmptyBlock}
    ELSE BlocksOf(Tail(kinds), n) \cup
         UNION { { (Head(kinds) :> val) @@ rest
                   : rest \in BlocksOf(Tail(kinds), n - ValueSize(Head(kinds), val)) }
                 : val \in KindValues(Head(kinds), n) }

\* Provider blocks with MaxSize sub-values at most, the github blocks of two
\* organisations, and the blocks holding one or two of them under one kind.
DeepCfgs(kind) ==
    IF kind = "github"
    THEN {Map([name |-> Str(n), identity_provider_id |-> Str(i), teams |-> StrList(q)])
            : n \in {"n", "m"}, q \in SeqsUpTo(Values, MaxSize), i \in ProviderIDs}
    ELSE {Map((SubKey[kind] :> StrList(q)) @@ ("identity_provider_id" :> Str(i)))
            : q \in SeqsUpTo(Values, MaxSize), i \in ProviderIDs}
DeepBlocks ==
    UNION { {(kind :> List(<<c>>)) : c \in DeepCfgs(kind)}
            \cup {(kind :> List(<<c1, c2>>)) : c1 \in DeepCfgs(kind), c2 \in DeepCfgs(kind)}
            : kind \in ProviderKinds \cup {"github"} }

\* Blocks of several kinds with several values: the well-formed blocks over
\* four kinds, one value larger than the blocks over all the kinds.
MixedKinds == <<"everyone", "email", "ip", "okta">>
MixedBlocks == BlocksOf(MixedKinds, MaxSize + 1)

\* The fields of a block of each kind made of blocks, and which of them is a
\* list of strings (the others are strings).
BlockFields ==
    [okta |-> {"name", "identity_provider_id"},
     gsuite |-> {"email", "identity_provider_id"},
     saml |-> {"attribute_name", "attribute_value", "identity_provider_id"},
     external_evaluation |-> {"evaluate_url", "keys_url"},
     github |-> {"name", "teams", "identity_provider_id"},
     azure |-> {"id", "identity_provider_id"}]
ListFields ==
    [okta |-> {"name"}, gsuite |-> {"email"}, saml |-> {}, external_evaluation |-> {},
     github |-> {"teams"}, azure |-> {"id"}]

\* A block of a kind with every field, the list fields holding the strings q.
FullCfg(kind, q) ==
    [g \in BlockFields[kind] |-> IF g \in ListFields[kind] THEN StrList(q) ELSE Str("a")]

\* The function m without the key g.
Without(m, g) == [h \in DOMAIN m \ {g} |-> m[h]]

\* Blocks of a kind of the wrong shape: one field missing, a list field
\* that is a string, a list field holding a non-string.
BadCfgs(kind) ==
    {Map(Without(FullCfg(kind, q), g)) : g \in BlockFields[kind], q \in {<<>>, <<"a">>}}
    \cup {Map([FullCfg(kind, <<"a">>) EXCEPT ![g] = Str("a")]) : g \in ListFields[kind]}
    \cup {Map([FullCfg(kind, <<"a">>) EXCEPT ![g] = List(<<Str("a"), Bool(TRUE)>>)])
            : g \in ListFields[kind]}

\* Values of a kind of the wrong shape.
BadValues(kind) ==
    IF kind \in BoolKinds THEN {Str("a"), Str(""), StrList(<<"a">>), Nil}
    ELSE IF kind \in StringKinds THEN {Bool(TRUE), StrList(<<"a">>), Nil}
    ELSE IF kind \in ListKinds
    THEN {Str("a"), Bool(TRUE), Nil, List(<<Str("a"), Bool(TRUE)>>)}
    ELSE {Str("a"), Nil, Map(FullCfg(kind, <<"a">>)), List(<<Str("a")>>)}
         \cup {List(<<c>>) : c \in BadCfgs(kind)}
         \cup {List(<<Map(FullCfg(kind, <<"a">>)), c>>) : c \in BadCfgs(kind)}

\* The blocks holding one value of the wrong shape, alone or next to a
\* well-formed value of another kind.
MalformedBlocks ==
    UNION { { (k :> val) @@ rest
              : rest \in {EmptyBlock} \cup
                         {(h :> StrList(<<"b">>)) : h \in {"email", "ip"} \ {k}} }
            : <<k, val>> \in UNION {{<<kind, b>> : b \in BadValues(kind)}
                                      : kind \in SupportedKinds} }

(***************************************************************************)
(* BuildAccessGroupCondition                                               *)
(*                                                                         *)
(* A variant is a struct of the API client: [struct |-> its type,           *)
(* f |-> its fields].  The result of a branch is [panic, out]: a failed     *)
(* type assertion panics and nothing is returned.                           *)
(***************************************************************************)

Variant(struct, fields) == [f |-> fields, struct |-> struct]
Ok(out) == [out |-> out, panic |-> FALSE]
Panic == [out |-> <<>>, panic |-> TRUE]

\* The results of the iterations of a loop, put together: a panic in any
\* iteration is a panic of the loop.
Join(rs) ==
    IF \E i \in 1..Len(rs) : rs[i].panic THEN Panic
    ELSE Ok(Flatten([i \in 1..Len(rs) |-> rs[i].out]))

\* x.(string) succeeds for the value at key of the map m.
HasString(m, key) == key \in DOMAIN m /\ m[key].t = "string"
HasList(m, key) == key \in DOMAIN m /\ m[key].t = "list"

\* A faulty variant of BuildFlag: the variant is built whatever the value.
BuildFlagAlways(struct, values) == Ok(<<Variant(struct, NoFields)>>)

\* Lines 433-444: everyone, any_valid_service_token, certificate.
BuildFlag(struct, values) ==
    IF values.t = "bool" /\ values.v = TRUE
    THEN Ok(<<Variant(struct, NoFields)>>) ELSE Ok(<<>>)

\* A faulty variant of BuildString: a value that is no string is skipped.
BuildStringLenient(struct, field, values) ==
    IF values.t # "string" \/ values.v = "" THEN Ok(<<>>)
    ELSE Ok(<<Variant(struct, (field :> values.v))>>)

\* Lines 445-456: common_name, auth_method.
BuildString(struct, field, values) ==
    IF values.t = "string" /\ values.v = "" THEN Ok(<<>>)
    ELSE IF values.t # "string" THEN Panic
    ELSE Ok(<<Variant(struct, (field :> values.v))>>)

\* A faulty variant of BuildProvider: every variant carries the
\* identity_provider_id of the first block of the list.
BuildProviderFirstID(struct, field, subKey, values) ==
    IF values.t # "list" THEN Panic
    ELSE Join([n \in 1..Len(values.v) |->
            LET cfg == values.v[n] IN
            IF cfg.t # "map" \/ ~HasList(cfg.v, subKey) THEN Panic
            ELSE Join([i \in 1..Len(cfg.v[subKey].v) |->
                    LET x == cfg.v[subKey].v[i] IN
                    IF x.t # "string" \/ ~HasString(cfg.v, "identity_provider_id")
                    THEN Panic
                    ELSE Ok(<<Variant(struct,
                                (field :> x.v) @@
                                ("IdentityProviderID" :>
                                    values.v[1].v["identity_provider_id"].v))>>)])])

\* The loops of lines 458-469, 497-508, 510-521: one variant per sub-value of
\* each provider block.
BuildProvider(struct, field, subKey, values) ==
    IF values.t # "list" THEN Panic
    ELSE Join([n \in 1..Len(values.v) |->
            LET cfg == values.v[n] IN
            IF cfg.t # "map" \/ ~HasList(cfg.v, subKey) THEN Panic
            ELSE Join([i \in 1..Len(cfg.v[subKey].v) |->
                    LET x == cfg.v[subKey].v[i] IN
                    IF x.t # "string" \/ ~HasString(cfg.v, "identity_provider_id")
                    THEN Panic
                    ELSE Ok(<<Variant(struct,
                                (field :> x.v) @@
                                ("IdentityProviderID" :> cfg.v["identity_provider_id"].v))>>)])])

\* Lines 457-469.
BuildGsuite(values) == BuildProvider("AccessGroupGSuite", "Email", "email", values)
\* Lines 496-508.
BuildAzure(values) == BuildProvider("AccessGroupAzure", "ID", "id", values)
\* Lines 509-521.
BuildOkta(values) == BuildProvider("AccessGroupOkta", "Name", "name", values)

\* A faulty variant of BuildGithub: a block with no team gives no variant.
BuildGithubTeamsOnly(values) ==
    IF values.t # "list" THEN Panic
    ELSE Join([n \in 1..Len(values.v) |->
            LET cfg == values.v[n] IN
            IF cfg.t # "map" \/ ~HasList(cfg.v, "teams") THEN Panic
            ELSE IF ~HasString(cfg.v, "name") \/ ~HasString(cfg.v, "identity_provider_id")
            THEN Panic
            ELSE Join([i \in 1..Len(cfg.v["teams"].v) |->
                    LET team == cfg.v["teams"].v[i] IN
                    IF team.t # "string" THEN Panic
                    ELSE Ok(<<Variant("AccessGroupGitHub",
                                [Name |-> cfg.v["name"].v, IdentityProviderID |-> cfg.v["identity_provider_id"].v,
                                 Team |-> team.v])>>)])])

\* Lines 470-495.
BuildGithub(values) ==
    IF values.t # "list" THEN Panic
    ELSE Join([n \in 1..Len(values.v) |->
            LET cfg == values.v[n] IN
            IF cfg.t # "map" \/ ~HasList(cfg.v, "teams") THEN Panic
            ELSE IF ~HasString(cfg.v, "name") \/ ~HasString(cfg.v, "identity_provider_id")
            THEN Panic
            ELSE IF Len(cfg.v["teams"].v) > 0
            THEN Join([i \in 1..Len(cfg.v["teams"].v) |->
                    LET team == cfg.v["teams"].v[i] IN
                    IF team.t # "string" THEN Panic
                    ELSE Ok(<<Variant("AccessGroupGitHub",
                                [Name |-> cfg.v["name"].v, IdentityProviderID |-> cfg.v["identity_provider_id"].v,
                                 Team |-> team.v])>>)])
            ELSE Ok(<<Variant("AccessGroupGitHub",
                        [Name |-> cfg.v["name"].v, IdentityProviderID |-> cfg.v["identity_provider_id"].v,
                         Team |-> ""])>>)])

\* Lines 522-534.
BuildSaml(values) ==
    IF values.t # "list" THEN Panic
    ELSE Join([n \in 1..Len(values.v) |->
            LET cfg == values.v[n] IN
            IF cfg.t # "map" \/ ~HasString(cfg.v, "attribute_name")
               \/ ~HasString(cfg.v, "attribute_value")
               \/ ~HasString(cfg.v, "identity_provider_id")
            THEN Panic
            ELSE Ok(<<Variant("AccessGroupSAML",
                        [IdentityProviderID |-> cfg.v["identity_provider_id"].v,
                         AttributeName |-> cfg.v["attribute_name"].v,
                         AttributeValue |-> cfg.v["attribute_value"].v])>>)])

\* Lines 535-545.
BuildExternalEvaluation(values) ==
    IF values.t # "list" THEN Panic
    ELSE Join([n \in 1..Len(values.v) |->
            LET cfg == values.v[n] IN
            IF cfg.t # "map" \/ ~HasString(cfg.v, "evaluate_url")
               \/ ~HasString(cfg.v, "keys_url")
            THEN Panic
            ELSE Ok(<<Variant("AccessGroupExternalEvaluation",
                        [EvaluateURL |-> cfg.v["evaluate_url"].v,
                         KeysURL |-> cfg.v["keys_url"].v])>>)])

\* The struct and the field of each case of the switch of lines 548-581.
GenericStruct ==
    [group |-> <<"AccessGroupAccessGroup", "ID">>,
     email |-> <<"AccessGroupEmail", "Email">>,
     email_domain |-> <<"AccessGroupEmailDomain", "Domain">>,
     ip |-> <<"AccessGroupIP", "IP">>,
     service_token |-> <<"AccessGroupServiceToken", "ID">>,
     geo |-> <<"AccessGroupGeo", "CountryCode">>,
     login_method |-> <<"AccessGroupLoginMethod", "ID">>,
     device_posture |-> <<"AccessGroupDevicePosture", "ID">>]

\* A faulty variant of BuildGeneric: only the first value of the list gives a variant.
BuildGenericFirstOnly(accessGroupType, values) ==
    IF values.t # "list" THEN Panic
    ELSE Join([i \in 1..(IF Len(values.v) > 0 THEN 1 ELSE 0) |->
            IF accessGroupType \notin DOMAIN GenericStruct THEN Ok(<<>>)
            ELSE IF values.v[i].t # "string" THEN Panic
            ELSE Ok(<<Variant(GenericStruct[accessGroupType][1],
                        (GenericStruct[accessGroupType][2] :> values.v[i].v))>>)])

\* Lines 546-583: the remaining kinds, one variant per value; a key that is no
\* case of the switch gives nothing.
BuildGeneric(accessGroupType, values) ==
    IF values.t # "list" THEN Panic
    ELSE Join([i \in 1..Len(values.v) |->
            IF accessGroupType \notin DOMAIN GenericStruct THEN Ok(<<>>)
            ELSE IF values.v[i].t # "string" THEN Panic
            ELSE Ok(<<Variant(GenericStruct[accessGroupType][1],
                        (GenericStruct[accessGroupType][2] :> values.v[i].v))>>)])

\* Lines 433-583: the body of the loop over the map, for one key.
BuildKey(accessGroupType, values) ==
    CASE accessGroupType = "everyone" -> BuildFlag("AccessGroupEveryone", values)
      [] accessGroupType = "any_valid_service_token" ->
            BuildFlag("AccessGroupAnyValidServiceToken", values)
      [] accessGroupType = "certificate" -> BuildFlag("AccessGroupCertificate", values)
      [] accessGroupType = "common_name" ->
            BuildString("AccessGroupCertificateCommonName", "CommonName", values)
      [] accessGroupType = "auth_method" ->
            BuildString("AccessGroupAuthMethod", "AuthMethod", values)
      [] accessGroupType = "gsuite" -> BuildGsuite(values)
      [] accessGroupType = "github" -> BuildGithub(values)
      [] accessGroupType = "azure" -> BuildAzure(values)
      [] accessGroupType = "okta" -> BuildOkta(values)
      [] accessGroupType = "saml" -> BuildSaml(values)
      [] accessGroupType = "external_evaluation" -> BuildExternalEvaluation(values)
      [] OTHER -> BuildGeneric(accessGroupType, values)

\* A faulty variant of BuildAccessGroupCondition: the variants of each key
\* replace those of the keys visited before it.
BuildLastKeyOnly(options, order) ==
    LET rs == [i \in 1..Len(order) |-> BuildKey(order[i], options[order[i]])]
    IN  IF \E i \in 1..Len(rs) : rs[i].panic THEN Panic
        ELSE IF rs = <<>> THEN Ok(<<>>)
        ELSE Ok(rs[Len(rs)].out)

\* Lines 430-587: the map is ranged over in the order the runtime picks, given
\* here as the sequence order of its keys.
BuildAccessGroupCondition(options, order) ==
    Join([i \in 1..Len(order) |-> BuildKey(order[i], options[order[i]])])

\* The orders in which a range loop may visit the keys of a map.
RangeOrders(m) ==
    LET n == Cardinality(DOMAIN m)
    IN  {q \in [1..n -> DOMAIN m] : \A i, j \in 1..n : q[i] = q[j] => i = j}

(***************************************************************************)
(* The API form of a variant (encoding/json with the structs' tags)         *)
(***************************************************************************)

\* The JSON key of each struct, and the JSON name of each of its fields.
JSONTags ==
    [AccessGroupGSuite |-> <<"gsuite", [IdentityProviderID |-> "identity_provider_id",
                                       Email |-> "email"]>>,
     AccessGroupAzure |-> <<"azureAD", [ID |-> "id",
                                        IdentityProviderID |-> "identity_provider_id"]>>,
     AccessGroupOkta |-> <<"okta", [Name |-> "name",
                                    IdentityProviderID |-> "identity_provider_id"]>>,
     AccessGroupGitHub |-> <<"github-organization",
                             [Name |-> "name", IdentityProviderID |-> "identity_provider_id",
                              Team |-> "team"]>>,
     AccessGroupSAML |-> <<"saml", [IdentityProviderID |-> "identity_provider_id",
                                    AttributeName |-> "attribute_name",
                                    AttributeValue |-> "attribute_value"]>>,
     AccessGroupExternalEvaluation |-> <<"external_evaluation",
                                         [EvaluateURL |-> "evaluate_url",
                                          KeysURL |-> "keys_url"]>>,
     AccessGroupAccessGroup |-> <<"group", [ID |-> "id"]>>,
     AccessGroupEmail |-> <<"email", [Email |-> "email"]>>,
     AccessGroupEmailDomain |-> <<"email_domain", [Domain |-> "domain"]>>,
     AccessGroupIP |-> <<"ip", [IP |-> "ip"]>>,
     AccessGroupServiceToken |-> <<"service_token", [ID |-> "token_id"]>>,
     AccessGroupGeo |-> <<"geo", [CountryCode |-> "country_code"]>>,
     AccessGroupLoginMethod |-> <<"login_method", [ID |-> "id"]>>,
     AccessGroupDevicePosture |-> <<"device_posture", [ID |-> "integration_uid"]>>,
     AccessGroupEveryone |-> <<"everyone", NoFields>>,
     AccessGroupAnyValidServiceToken |-> <<"any_valid_service_token", NoFields>>,
     AccessGroupCertificate |-> <<"certificate", NoFields>>,
     AccessGroupCertificateCommonName |-> <<"common_name", [CommonName |-> "common_name"]>>,
     AccessGroupAuthMethod |-> <<"auth_method", [AuthMethod |-> "auth_method"]>>]

\* The fields tagged omitempty: left out of the JSON when empty.
OmitEmpty == {"Team"}

\* A variant as the API gives it back: marshalled with its tags and decoded
\* into maps.
ToJSON(variant) ==
    LET tags == JSONTags[variant.struct][2]
        kept == {g \in DOMAIN variant.f : ~(g \in OmitEmpty /\ variant.f[g] = "")}
        names == {tags[g] : g \in kept}
    IN  Cond(JSONTags[variant.struct][1],
             [n \in names |-> variant.f[CHOOSE g \in kept : tags[g] = n]])

\* A block is given to BuildAccessGroupCondition, which ranges over it in one
\* of the possible orders.
ApplyBuild ==
    /\ tout.pc = "idle"
    /\ \E order \in RangeOrders(tin) :
          LET r == BuildAccessGroupCondition(tin, order)
          IN  tout' = IF r.panic
                      THEN TranscoderAt("panic", order, <<>>, <<>>, <<>>)
                      ELSE TranscoderAt("built", order, r.out, <<>>, <<>>)
    /\ UNCHANGED <<zone, wafCfg, waf, tin, d, last>>

\* The variants built go to the API and come back in their JSON form, which
\* TransformAccessGroupForSchema turns into the schema form.
ApplyRoundTrip ==
    /\ tout.pc = "built"
    /\ LET json == [i \in 1..Len(tout.group) |-> ToJSON(tout.group[i])]
       IN  tout' = TranscoderAt("roundtrip", tout.order, tout.group, json,
                                TransformAccessGroupForSchema(json))
    /\ UNCHANGED <<zone, wafCfg, waf, tin, d, last>>

InitBuild ==
    /\ tin \in BlocksOf(KindList, MaxSize) \cup DeepBlocks \cup MixedBlocks
                \cup MalformedBlocks
    /\ tout = TranscoderIdle
    /\ zone = [i \in 1..Len(ZonePackages) |-> <<>>]
    /\ wafCfg = [filter |-> <<>>, package_id |-> ""]
    /\ waf = WAFIdle
    /\ d = NewResource
    /\ last = NoCall

NextBuild ==
    \/ ApplyBuild
    \/ ApplyRoundTrip

SpecBuild == InitBuild /\ [][NextBuild]_vars

(***************************************************************************)
(* Access Group resource handlers                                          *)
(*                                                                         *)
(* Each handler call is one action.  Its inputs are drawn when it is       *)
(* called: the configuration Terraform hands over in d, the identifier     *)
(* initIdentifier resolves, and the response of each call to the API.      *)
(***************************************************************************)

\* The blocks and block lists of the configurations of the model.
BlockA == ("email" :> StrList(<<"a">>))
BlockB == ("ip" :> StrList(<<"b">>)) @@ ("everyone" :> Bool(TRUE))
SampleBlocks == {BlockA, BlockB}

Configs ==
    {[name |-> "n2", require |-> <<>>, exclude |-> <<Map(BlockA)>>, include |-> <<>>],
     [name |-> "n1", require |-> <<Nil>>, exclude |-> <<Map(BlockB), Nil>>,
      include |-> <<Map(BlockA), Map(BlockB)>>]}

\* For each block, the order in which one range loop visits its keys.
OrderChoices == {f \in [SampleBlocks -> UNION {RangeOrders(b) : b \in SampleBlocks}] :
                    \A b \in SampleBlocks : f[b] \in RangeOrders(b)}

\* The order choices that differ on the blocks of a block list.
OrdersFor(blocks) ==
    LET used == {blocks[i].v : i \in {n \in 1..Len(blocks) : blocks[n].t = "map"}}
    IN  {f \in OrderChoices :
            \A b \in SampleBlocks \ used : f[b] = CHOOSE o \in RangeOrders(b) : TRUE}

\* What initIdentifier(d) resolves to: an account or a zone, or an error.
AccountType == "account"
ZoneType == "zone"
Identifiers ==
    {[err |-> FALSE, Type |-> AccountType, Value |-> "acc"],
     [err |-> FALSE, Type |-> ZoneType, Value |-> "zon"],
     [err |-> TRUE, Type |-> "", Value |-> ""]}

\* The Access Groups the API may answer with.
GroupIDsReturned == {EmptyID, <<"g">>, <<"h">>}
RemoteLists ==
    {[Require |-> <<>>, Exclude |-> <<>>, Include |-> <<Cond("everyone", NoFields)>>],
     [Require |-> <<Cond("email", [email |-> "a"])>>,
      Exclude |-> <<Cond("ip", [ip |-> "b"]), Cond("ip", [ip |-> "a"])>>,
      Include |-> <<Cond("okta", [name |-> "a", identity_provider_id |-> "p"])>>]}
RemoteGroups ==
    {[ID |-> i, Name |-> n, Require |-> l.Require, Exclude |-> l.Exclude,
      Include |-> l.Include] : i \in GroupIDsReturned, n \in {"r1"}, l \in RemoteLists}
NoGroup == [ID |-> EmptyID, Name |-> "", Require |-> <<>>, Exclude |-> <<>>, Include |-> <<>>]

\* The response of one API call: the group, or an error whose text holds
\* "HTTP status 404", or another error.
Failures == {[status |-> st, group |-> NoGroup] : st \in {"404", "500"}}
Responses == {[status |-> "ok", group |-> g] : g \in RemoteGroups} \cup Failures
\* The responses that differ in what a read uses, and in what a create or an
\* update uses.
ReadResponses ==
    {r \in Responses : r.status = "ok" => r.group.ID = <<"g">>}
WriteResponses ==
    {r \in Responses : r.status = "ok" => r.group.Include # <<Cond("everyone", NoFields)>>}

Err(msg) == [err |-> TRUE, msg |-> msg]
ApiCall(fn, scope, arg) == [fn |-> fn, scope |-> scope, arg |-> arg]
ApiError(fn, status) == [status |-> status, fn |-> fn]
Outcome(res, ret, calls, errs, sets) ==
    [d |-> res, ret |-> ret, calls |-> calls, errs |-> errs, sets |-> sets]

\* strings.Contains(err.Error(), "HTTP status 404").
IsNotFound(status) == status = "404"

\* A faulty variant of resourceCloudflareAccessGroupRead: a 404 is reported like any other
\* error and the ID is kept.
ReadReporting404(res, identifier, resp) ==
    IF identifier.err THEN Outcome(res, Err("identifier"), <<>>, <<>>, <<>>)
    ELSE LET fn == IF identifier.Type = AccountType THEN "AccessGroup"
                   ELSE "ZoneLevelAccessGroup"
             call == ApiCall(fn, identifier.Value, res.id)
         IN  IF resp.status # "ok"
             THEN Outcome(res, Err("error finding Access Group"), <<call>>,
                          <<ApiError(fn, resp.status)>>, <<>>)
             ELSE Outcome([res EXCEPT
                              !.name = resp.group.Name,
                              !.require = TransformAccessGroupForSchema(resp.group.Require),
                              !.exclude = TransformAccessGroupForSchema(resp.group.Exclude),
                              !.include = TransformAccessGroupForSchema(resp.group.Include)],
                          NoError, <<call>>, <<>>,
                          <<"name", "require", "exclude", "include">>)

\* A faulty variant of resourceCloudflareAccessGroupRead: require is set from
\* the remote Exclude list and exclude from the remote Require list.
ReadCrossingLists(res, identifier, resp) ==
    IF identifier.err THEN Outcome(res, Err("identifier"), <<>>, <<>>, <<>>)
    ELSE LET fn == IF identifier.Type = AccountType THEN "AccessGroup"
                   ELSE "ZoneLevelAccessGroup"
             call == ApiCall(fn, identifier.Value, res.id)
         IN  IF resp.status # "ok"
             THEN IF IsNotFound(resp.status)
                  THEN Outcome([res EXCEPT !.id = EmptyID], NoError, <<call>>,
                               <<ApiError(fn, resp.status)>>, <<>>)
                  ELSE Outcome(res, Err("error finding Access Group"), <<call>>,
                               <<ApiError(fn, resp.status)>>, <<>>)
             ELSE Outcome([res EXCEPT
                              !.name = resp.group.Name,
                              !.require = TransformAccessGroupForSchema(resp.group.Exclude),
                              !.exclude = TransformAccessGroupForSchema(resp.group.Require),
                              !.include = TransformAccessGroupForSchema(resp.group.Include)],
                          NoError, <<call>>, <<>>,
                          <<"name", "require", "exclude", "include">>)

\* Lines 250-289.  d.Set of a list TransformAccessGroupForSchema made does not
\* fail.
resourceCloudflareAccessGroupRead(res, identifier, resp) ==
    IF identifier.err THEN Outcome(res, Err("identifier"), <<>>, <<>>, <<>>)
    ELSE LET fn == IF identifier.Type = AccountType THEN "AccessGroup"
                   ELSE "ZoneLevelAccessGroup"
             call == ApiCall(fn, identifier.Value, res.id)
         IN  IF resp.status # "ok"
             THEN IF IsNotFound(resp.status)
                  THEN Outcome([res EXCEPT !.id = EmptyID], NoError, <<call>>,
                               <<ApiError(fn, resp.status)>>, <<>>)
                  ELSE Outcome(res, Err("error finding Access Group"), <<call>>,
                               <<ApiError(fn, resp.status)>>, <<>>)
             ELSE Outcome([res EXCEPT
                              !.name = resp.group.Name,
                              !.require = TransformAccessGroupForSchema(resp.group.Require),
                              !.exclude = TransformAccessGroupForSchema(resp.group.Exclude),
                              !.include = TransformAccessGroupForSchema(resp.group.Include)],
                          NoError, <<call>>, <<>>,
                          <<"name", "require", "exclude", "include">>)

\* A faulty variant of LastBlockBuilt: the conditions of each non-nil block are
\* appended to those of the blocks before it.
AllBlocksBuilt(field, blocks, i, ord) ==
    Join([n \in 1..(Len(blocks) + 1) |->
            IF n = 1 THEN field
            ELSE IF blocks[n - 1].t = "nil" THEN Ok(<<>>)
            ELSE IF blocks[n - 1].t # "map" THEN Panic
            ELSE BuildAccessGroupCondition(blocks[n - 1].v, ord[blocks[n - 1].v])])

\* One loop of lines 401-420: the field is built from every non-nil block in
\* turn, each result replacing the one before.
RECURSIVE LastBlockBuilt(_, _, _, _)
LastBlockBuilt(field, blocks, i, ord) ==
    IF i > Len(blocks) THEN field
    ELSE IF field.panic THEN field
    ELSE LastBlockBuilt(
            IF blocks[i].t = "nil" THEN field
            ELSE IF blocks[i].t # "map" THEN Panic
            ELSE BuildAccessGroupCondition(blocks[i].v, ord[blocks[i].v]),
            blocks, i + 1, ord)

\* Lines 400-423: [panic, group].
appendConditionalAccessGroupFields(group, cfg, ordE, ordR, ordI) ==
    LET e == LastBlockBuilt(Ok(group.Exclude), cfg.exclude, 1, ordE)
        r == LastBlockBuilt(Ok(group.Require), cfg.require, 1, ordR)
        i == LastBlockBuilt(Ok(group.Include), cfg.include, 1, ordI)
    IN  [group |-> [group EXCEPT !.Exclude = e.out, !.Require = r.out, !.Include = i.out],
         panic |-> e.panic \/ r.panic \/ i.panic]

Crashed(res) == Outcome(res, [err |-> FALSE, msg |-> "panic"], <<>>, <<>>, <<>>)

\* An outcome of the read made at the end of a handler, after the handler's
\* own calls and errors.
After(calls, errs, rd) ==
    Outcome(rd.d, rd.ret, calls \o rd.calls, errs \o rd.errs, rd.sets)

\* A faulty variant of resourceCloudflareAccessGroupCreate: the ID of the
\* create response is not stored before the read.
CreateWithoutSetId(res, cfg, ordE, ordR, ordI, identifier, resp, readResp) ==
    LET built == appendConditionalAccessGroupFields(
                    [NoGroup EXCEPT !.Name = cfg.name], cfg, ordE, ordR, ordI)
        fn == IF identifier.Type = AccountType THEN "CreateAccessGroup"
              ELSE "CreateZoneLevelAccessGroup"
        call == ApiCall(fn, identifier.Value, built.group)
    IN  IF built.panic THEN Crashed(res)
        ELSE IF identifier.err THEN Outcome(res, Err("identifier"), <<>>, <<>>, <<>>)
        ELSE IF resp.status # "ok"
        THEN Outcome(res, Err("error creating Access Group"), <<call>>,
                     <<ApiError(fn, resp.status)>>, <<>>)
        ELSE After(<<call>>, <<>>,
                   resourceCloudflareAccessGroupRead(res, identifier, readResp))

\* Lines 291-318.
resourceCloudflareAccessGroupCreate(res, cfg, ordE, ordR, ordI, identifier, resp, readResp) ==
    LET built == appendConditionalAccessGroupFields(
                    [NoGroup EXCEPT !.Name = cfg.name], cfg, ordE, ordR, ordI)
        fn == IF identifier.Type = AccountType THEN "CreateAccessGroup"
              ELSE "CreateZoneLevelAccessGroup"
        call == ApiCall(fn, identifier.Value, built.group)
    IN  IF built.panic THEN Crashed(res)
        ELSE IF identifier.err THEN Outcome(res, Err("identifier"), <<>>, <<>>, <<>>)
        ELSE IF resp.status # "ok"
        THEN Outcome(res, Err("error creating Access Group"), <<call>>,
                     <<ApiError(fn, resp.status)>>, <<>>)
        ELSE After(<<call>>, <<>>,
                   resourceCloudflareAccessGroupRead([res EXCEPT !.id = resp.group.ID],
                                                     identifier, readResp))

\* A faulty variant of resourceCloudflareAccessGroupUpdate: the ID of the
\* update response becomes the ID of the resource.
UpdateAdoptingResponseID(res, cfg, ordE, ordR, ordI, identifier, resp, readResp) ==
    LET built == appendConditionalAccessGroupFields(
                    [NoGroup EXCEPT !.Name = cfg.name, !.ID = res.id],
                    cfg, ordE, ordR, ordI)
        fn == IF identifier.Type = AccountType THEN "UpdateAccessGroup"
              ELSE "UpdateZoneLevelAccessGroup"
        call == ApiCall(fn, identifier.Value, built.group)
    IN  IF built.panic THEN Crashed(res)
        ELSE IF identifier.err THEN Outcome(res, Err("identifier"), <<>>, <<>>, <<>>)
        ELSE IF resp.status # "ok"
        THEN Outcome(res, Err("error updating Access Group"), <<call>>,
                     <<ApiError(fn, resp.status)>>, <<>>)
        ELSE IF resp.group.ID = EmptyID
        THEN Outcome(res, Err("failed to find Access Group ID in update response"),
                     <<call>>, <<>>, <<>>)
        ELSE After(<<call>>, <<>>,
                   resourceCloudflareAccessGroupRead([res EXCEPT !.id = resp.group.ID],
                                                     identifier, readResp))

\* A faulty variant of resourceCloudflareAccessGroupUpdate: the ID of the
\* update response is not tested.
UpdateWithoutIDCheck(res, cfg, ordE, ordR, ordI, identifier, resp, readResp) ==
    LET built == appendConditionalAccessGroupFields(
                    [NoGroup EXCEPT !.Name = cfg.name, !.ID = res.id],
                    cfg, ordE, ordR, ordI)
        fn == IF identifier.Type = AccountType THEN "UpdateAccessGroup"
              ELSE "UpdateZoneLevelAccessGroup"
        call == ApiCall(fn, identifier.Value, built.group)
    IN  IF built.panic THEN Crashed(res)
        ELSE IF identifier.err THEN Outcome(res, Err("identifier"), <<>>, <<>>, <<>>)
        ELSE IF resp.status # "ok"
        THEN Outcome(res, Err("error updating Access Group"), <<call>>,
                     <<ApiError(fn, resp.status)>>, <<>>)
        ELSE After(<<call>>, <<>>,
                   resourceCloudflareAccessGroupRead(res, identifier, readResp))

\* Lines 320-351.
resourceCloudflareAccessGroupUpdate(res, cfg, ordE, ordR, ordI, identifier, resp, readResp) ==
    LET built == appendConditionalAccessGroupFields(
                    [NoGroup EXCEPT !.Name = cfg.name, !.ID = res.id],
                    cfg, ordE, ordR, ordI)
        fn == IF identifier.Type = AccountType THEN "UpdateAccessGroup"
              ELSE "UpdateZoneLevelAccessGroup"
        call == ApiCall(fn, identifier.Value, built.group)
    IN  IF built.panic THEN Crashed(res)
        ELSE IF identifier.err THEN Outcome(res, Err("identifier"), <<>>, <<>>, <<>>)
        ELSE IF resp.status # "ok"
        THEN Outcome(res, Err("error updating Access Group"), <<call>>,
                     <<ApiError(fn, resp.status)>>, <<>>)
        ELSE IF resp.group.ID = EmptyID
        THEN Outcome(res, Err("failed to find Access Group ID in update response"),
                     <<call>>, <<>>, <<>>)
        ELSE After(<<call>>, <<>>,
                   resourceCloudflareAccessGroupRead(res, identifier, readResp))

\* A faulty variant of resourceCloudflareAccessGroupDelete: the account-level
\* delete is called whatever the type of the identifier.
DeleteAlwaysAccountLevel(res, identifier, status, readResp) ==
    LET call == ApiCall("DeleteAccessGroup", identifier.Value, res.id)
    IN  IF identifier.err THEN Outcome(res, Err("identifier"), <<>>, <<>>, <<>>)
        ELSE IF status # "ok"
        THEN Outcome(res, Err("error deleting Access Group"), <<call>>,
                     <<ApiError("DeleteAccessGroup", status)>>, <<>>)
        ELSE LET rd == resourceCloudflareAccessGroupRead(res, identifier, readResp)
             IN  After(<<call>>, <<>>, [rd EXCEPT !.ret = NoError])

\* A faulty variant of resourceCloudflareAccessGroupDelete: the result of the
\* read is returned.
DeleteReturningRead(res, identifier, status, readResp) ==
    LET fn == IF identifier.Type = AccountType THEN "DeleteAccessGroup"
              ELSE "DeleteZoneLevelAccessGroup"
        call == ApiCall(fn, identifier.Value, res.id)
    IN  IF identifier.err THEN Outcome(res, Err("identifier"), <<>>, <<>>, <<>>)
        ELSE IF status # "ok"
        THEN Outcome(res, Err("error deleting Access Group"), <<call>>,
                     <<ApiError(fn, status)>>, <<>>)
        ELSE After(<<call>>, <<>>,
                   resourceCloudflareAccessGroupRead(res, identifier, readResp))

\* Lines 353-375: the result of the read is dropped.
resourceCloudflareAccessGroupDelete(res, identifier, status, readResp) ==
    LET fn == IF identifier.Type = AccountType THEN "DeleteAccessGroup"
              ELSE "DeleteZoneLevelAccessGroup"
        call == ApiCall(fn, identifier.Value, res.id)
    IN  IF identifier.err THEN Outcome(res, Err("identifier"), <<>>, <<>>, <<>>)
        ELSE IF status # "ok"
        THEN Outcome(res, Err("error deleting Access Group"), <<call>>,
                     <<ApiError(fn, status)>>, <<>>)
        ELSE LET rd == resourceCloudflareAccessGroupRead(res, identifier, readResp)
             IN  After(<<call>>, <<>>, [rd EXCEPT !.ret = NoError])

\* strings.SplitN(s, "/", 2): the text before the first "/" and the text after
\* it, or the whole text when it holds no "/".
SplitN2(id) ==
    IF \E i \in 1..Len(id) : id[i] = "/"
    THEN LET i == CHOOSE j \in 1..Len(id) :
                    id[j] = "/" /\ \A n \in 1..(j - 1) : id[n] # "/"
         IN  <<SubSeq(id, 1, i - 1), SubSeq(id, i + 1, Len(id))>>
    ELSE <<id>>

\* A faulty variant of resourceCloudflareAccessGroupImport: the ID is split at
\* every "/" and the second part alone becomes the ID.
ImportSplittingAll(res, identifier, readResp) ==
    LET attributes == SplitN2(res.id)
    IN  IF Len(attributes) # 2
        THEN Outcome(res, Err("invalid id"), <<>>, <<>>, <<>>)
        ELSE LET rd == resourceCloudflareAccessGroupRead(
                          [res EXCEPT !.account_id = attributes[1],
                                      !.id = SplitN2(attributes[2])[1]],
                          identifier, readResp)
             IN  [rd EXCEPT !.ret = NoError, !.sets = <<"account_id">> \o @]

\* A faulty variant of resourceCloudflareAccessGroupImport: the result of the
\* read is the result of Import.
ImportReturningRead(res, identifier, readResp) ==
    LET attributes == SplitN2(res.id)
    IN  IF Len(attributes) # 2
        THEN Outcome(res, Err("invalid id"), <<>>, <<>>, <<>>)
        ELSE LET rd == resourceCloudflareAccessGroupRead(
                          [res EXCEPT !.account_id = attributes[1], !.id = attributes[2]],
                          identifier, readResp)
             IN  [rd EXCEPT !.sets = <<"account_id">> \o @]

\* Lines 377-394: the result of the read is dropped.
resourceCloudflareAccessGroupImport(res, identifier, readResp) ==
    LET attributes == SplitN2(res.id)
    IN  IF Len(attributes) # 2
        THEN Outcome(res, Err("invalid id"), <<>>, <<>>, <<>>)
        ELSE LET rd == resourceCloudflareAccessGroupRead(
                          [res EXCEPT !.account_id = attributes[1], !.id = attributes[2]],
                          identifier, readResp)
             IN  [rd EXCEPT !.ret = NoError, !.sets = <<"account_id">> \o @]

\* What a handler call leaves behind for the properties: the handler, the ID
\* of the resource it was called on, what initIdentifier resolved, the answer
\* of the API to the handler's own call and to its read, what the handler
\* returned, the API calls it made and their errors, and the attributes it
\* set.  Create and Update add the configuration they were given.
Called(op, id, identifier, resp, readResp, out) ==
    [id |-> id, op |-> op, ident |-> identifier, cfg |-> NoCfg, resp |-> resp,
     readResp |-> readResp, ret |-> out.ret, calls |-> out.calls, errs |-> out.errs,
     sets |-> out.sets]

\* The response of a call is drawn only when the handler gets to the call.
NoResponse == NoAnswer
DrawnIf(made, responses) == IF made THEN responses ELSE {NoResponse}

CallRead ==
    \E identifier \in Identifiers :
      \E resp \in DrawnIf(~identifier.err, ReadResponses) :
        \E out \in {resourceCloudflareAccessGroupRead(d, identifier, resp)} :
            /\ d' = out.d
            /\ last' = Called("Read", d.id, identifier, NoResponse, resp, out)
            /\ UNCHANGED <<zone, wafCfg, waf, tin, tout>>

CallCreate ==
    \E cfg \in Configs, identifier \in Identifiers :
      \E ordE \in OrdersFor(cfg.exclude), ordR \in OrdersFor(cfg.require),
         ordI \in OrdersFor(cfg.include) :
        \E resp \in DrawnIf(~identifier.err, WriteResponses) :
          \E readResp \in DrawnIf(resp.status = "ok", ReadResponses) :
            \E out \in {resourceCloudflareAccessGroupCreate(
                          d, cfg, ordE, ordR, ordI, identifier, resp, readResp)} :
                /\ d' = out.d
                /\ last' = [Called("Create", d.id, identifier, resp, readResp, out)
                               EXCEPT !.cfg = cfg]
                /\ UNCHANGED <<zone, wafCfg, waf, tin, tout>>

CallUpdate ==
    \E cfg \in Configs, identifier \in Identifiers :
      \E ordE \in OrdersFor(cfg.exclude), ordR \in OrdersFor(cfg.require),
         ordI \in OrdersFor(cfg.include) :
        \E resp \in DrawnIf(~identifier.err, WriteResponses) :
          \E readResp \in DrawnIf(resp.status = "ok" /\ resp.group.ID # EmptyID,
                                   ReadResponses) :
            \E out \in {resourceCloudflareAccessGroupUpdate(
                          d, cfg, ordE, ordR, ordI, identifier, resp, readResp)} :
                /\ d' = out.d
                /\ last' = [Called("Update", d.id, identifier, resp, readResp, out)
                               EXCEPT !.cfg = cfg]
                /\ UNCHANGED <<zone, wafCfg, waf, tin, tout>>

CallDelete ==
    \E identifier \in Identifiers :
      \E status \in (IF identifier.err THEN {"none"} ELSE {"ok", "404", "500"}) :
        \E readResp \in DrawnIf(status = "ok", ReadResponses) :
          \E out \in {resourceCloudflareAccessGroupDelete(d, identifier, status, readResp)} :
              /\ d' = out.d
              /\ last' = Called("Delete", d.id, identifier,
                                 [NoResponse EXCEPT !.status = status], readResp, out)
              /\ UNCHANGED <<zone, wafCfg, waf, tin, tout>>

\* The IDs terraform import may be given.
ImportIDs == {<<"a", "/", "g">>, <<"g">>, <<"a", "/", "g", "/", "h">>, <<"/", "g">>}

\* Import runs on a new resource whose ID is the ID given to terraform import;
\* the identifier is resolved by the read, when Import gets to it.
CallImport ==
    \E id \in ImportIDs :
      \E identifier \in (IF Len(SplitN2(id)) = 2 THEN Identifiers ELSE {NoCall.ident}) :
        \E readResp \in DrawnIf(Len(SplitN2(id)) = 2 /\ ~identifier.err, ReadResponses) :
          \E out \in {resourceCloudflareAccessGroupImport(
                        [NewResource EXCEPT !.id = id], identifier, readResp)} :
              /\ d' = out.d
              /\ last' = Called("Import", id, identifier, NoResponse, readResp, out)
              /\ UNCHANGED <<zone, wafCfg, waf, tin, tout>>

InitCRUD ==
    /\ d = NewResource
    /\ last = NoCall
    /\ zone = [i \in 1..Len(ZonePackages) |-> <<>>]
    /\ wafCfg = [filter |-> <<>>, package_id |-> ""]
    /\ waf = WAFIdle
    /\ tin = <<>>
    /\ tout = TranscoderIdle

NextCRUD ==
    \/ CallRead
    \/ CallCreate
    \/ CallUpdate
    \/ CallDelete
    \/ CallImport

SpecCRUD == InitCRUD /\ [][NextCRUD]_vars

(***************************************************************************)
(* WAF rules data source: properties                                       *)
(***************************************************************************)

\* The configured filter, read from the configuration itself.
CfgHas(k) == Len(wafCfg.filter) > 0 /\ k \in DOMAIN wafCfg.filter[1]
CfgGroupID == IF CfgHas("group_id") THEN wafCfg.filter[1]["group_id"] ELSE ""
CfgMode == IF CfgHas("mode") THEN wafCfg.filter[1]["mode"] ELSE ""

\* A rule passes the three filters together.
PassesAll(rule) ==
    /\ CfgGroupID # "" => rule.Group = CfgGroupID
    /\ CfgHas("description") => Match(wafCfg.filter[1]["description"], rule.Description)
    /\ CfgMode # "" => rule.Mode = CfgMode

\* The packages for which ListWAFRules was called, in call order, and those
\* among them whose listing succeeded.
ListedPkgs ==
    LET c == SelectSeq(waf.calls, LAMBDA x : x[1] = "ListWAFRules")
    IN  [i \in 1..Len(c) |-> c[i][2]]
ScannedPkgs ==
    IF waf.err = "ListWAFRules" THEN SubSeq(ListedPkgs, 1, Len(ListedPkgs) - 1)
    ELSE ListedPkgs

\* The rules of package pkgID that pass the filters, in listing order, as
\* emitted records.
PassingOf(pkgID) ==
    LET sel == SelectSeq(ListWAFRules(pkgID), PassesAll)
    IN  [j \in 1..Len(sel) |-> RuleDetail(sel[j], pkgID)]

ExpectedRules == Flatten([i \in 1..Len(ScannedPkgs) |-> PassingOf(ScannedPkgs[i])])

\* C4: the emitted rules are exactly the rules of the scanned packages that pass
\* the group_id, description and mode filters together, in scan order (packages
\* in list order, rules in listing order); this holds of the accumulated list
\* after every package and of the stored rules at the end.
C4_EmittedAreFiltered ==
    /\ waf.pc \in {"scan", "done"} => waf.ruleDetails = ExpectedRules
    /\ waf.pc = "done" => waf.rulesSet /\ waf.rules = ExpectedRules

\* A finished read with all three filters set, two packages scanned, one rule
\* emitted and another rule rejected.
C4_Witness ==
    /\ waf.pc = "done"
    /\ Len(ScannedPkgs) >= 2
    /\ CfgHas("description") /\ CfgMode # "" /\ CfgGroupID # ""
    /\ Len(waf.rules) = 1
    /\ \E i \in 1..Len(ScannedPkgs) :
          Len(ListWAFRules(ScannedPkgs[i])) = 2 /\ Len(PassingOf(ScannedPkgs[i])) = 1

\* Package i of pkgList is preceded by a package holding a rule of the filtered
\* group.
EarlierGroupHit(i) ==
    /\ CfgGroupID # ""
    /\ \E j \in 1..(i - 1) :
          \E n \in 1..Len(ListWAFRules(waf.pkgList[j])) :
              ListWAFRules(waf.pkgList[j])[n].Group = CfgGroupID

\* C5: ListWAFRules is called for the packages of the list in order, never for a
\* package that follows one holding a rule of the filtered group, and a read
\* that ends without an API error has listed exactly the packages that no such
\* package precedes (so every package when no group_id is given).
C5_EarlyExit ==
    /\ Len(ListedPkgs) <= Len(waf.pkgList)
    /\ \A i \in 1..Len(ListedPkgs) :
          ListedPkgs[i] = waf.pkgList[i] /\ ~EarlierGroupHit(i)
    /\ waf.pc = "done" =>
          \A i \in 1..Len(waf.pkgList) : (i <= Len(ListedPkgs)) <=> ~EarlierGroupHit(i)

\* A finished read over three packages that stopped after the second one, whose
\* rule of the filtered group was rejected by another filter.
C5_Witness ==
    /\ waf.pc = "done"
    /\ Len(waf.pkgList) = 3 /\ Len(ListedPkgs) = 2
    /\ waf.rules = <<>>

\* A finished read without group_id that listed all three packages.
C5_WitnessNoGroup ==
    /\ waf.pc = "done" /\ CfgGroupID = ""
    /\ Len(waf.pkgList) = 3 /\ Len(ListedPkgs) = 3

\* Every group ID occurs in the rules of at most one package of the list.
GroupsPackageUnique ==
    \A g \in GroupIDs :
        Cardinality({i \in 1..Len(waf.pkgList) :
                        \E n \in 1..Len(ListWAFRules(waf.pkgList[i])) :
                            ListWAFRules(waf.pkgList[i])[n].Group = g}) <= 1

\* The scan of pkgList from package i on with the break removed.
RECURSIVE FullScan(_, _)
FullScan(i, acc) ==
    IF i > Len(waf.pkgList) THEN acc
    ELSE FullScan(i + 1, ScanRules(waf.filter, ListWAFRules(waf.pkgList[i]),
                                   waf.pkgList[i], 1, acc))

\* C6: when every group ID occurs in at most one package, a finished read emits
\* the sequence that the scan of all packages without the early exit emits.
C6_EarlyExitEquivalent ==
    (waf.pc = "done" /\ GroupsPackageUnique) =>
        waf.rules = FullScan(1, [foundGroup |-> FALSE, ruleDetails |-> <<>>,
                                 ruleIds |-> <<>>]).ruleDetails

\* A finished read that left packages unscanned and emitted a rule, in a zone
\* whose groups are package-unique.
C6_Witness ==
    /\ waf.pc = "done" /\ GroupsPackageUnique
    /\ Len(ListedPkgs) < Len(waf.pkgList)
    /\ waf.rules # <<>>
    /\ \E i \in (Len(ListedPkgs) + 1)..Len(waf.pkgList) :
          Len(ListWAFRules(waf.pkgList[i])) > 0

\* The calls of ListWAFPackages made.
PackageListings == SelectSeq(waf.calls, LAMBDA x : x[1] = "ListWAFPackages")

\* C13: with an empty package_id the read calls ListWAFPackages once, before
\* any ListWAFRules call, and scans the packages it returns, in the returned
\* order; with a package_id it never calls ListWAFPackages and scans only that
\* package.
C13_PackagesToScan ==
    /\ wafCfg.package_id = "" =>
          /\ waf.pc \in {"scan", "done"} =>
                /\ Len(PackageListings) = 1 /\ waf.calls[1] = <<"ListWAFPackages">>
                /\ waf.pkgList = ZonePackages
          /\ ListedPkgs = SubSeq(ZonePackages, 1, Len(ListedPkgs))
    /\ wafCfg.package_id # "" =>
          /\ PackageListings = <<>>
          /\ ListedPkgs \in {<<>>, <<wafCfg.package_id>>}
          /\ waf.pc = "done" => ListedPkgs = <<wafCfg.package_id>>

\* A finished read with package_id "p2" that listed the rules of p2 alone and
\* emitted one of them, in a zone whose first package holds a rule too.
C13_Witness ==
    /\ waf.pc = "done"
    /\ wafCfg.package_id = "p2"
    /\ waf.calls = <<<<"ListWAFRules", "p2">>>>
    /\ Len(waf.rules) = 1
    /\ Len(ListWAFRules("p1")) = 1

\* A finished read without package_id that scanned the three packages the
\* zone returned, in order.
C13_WitnessAllPackages ==
    /\ waf.pc = "done"
    /\ wafCfg.package_id = ""
    /\ ListedPkgs = ZonePackages
    /\ Len(waf.rules) = 2

\* The record is the one made of the rule with its ID in the listing of its
\* package_id.
FromListingOf(rec) ==
    \E n \in 1..Len(ListWAFRules(rec.package_id)) :
        LET rule == ListWAFRules(rec.package_id)[n]
        IN  rule.ID = rec.id /\ rec = RuleDetail(rule, rec.package_id)

\* C14: the rule IDs collected are the id fields of the records collected, in
\* the same order, and each record's package_id is the package whose listing
\* holds its rule; a successful read stores those records in rules and
\* computes the ID from those rule IDs.
C14_IdsMatchRules ==
    /\ waf.ruleIds = [i \in 1..Len(waf.ruleDetails) |-> waf.ruleDetails[i].id]
    /\ \A i \in 1..Len(waf.ruleDetails) :
          /\ waf.ruleDetails[i].package_id \in {ScannedPkgs[n] : n \in 1..Len(ScannedPkgs)}
          /\ FromListingOf(waf.ruleDetails[i])
    /\ waf.pc = "done" =>
          /\ waf.idSet /\ waf.rulesSet
          /\ waf.id = [i \in 1..Len(waf.rules) |-> waf.rules[i].id]

\* A finished read with a mode filter over a zone whose first package holds a
\* rejected rule and whose second package holds the one rule stored.
C14_Witness ==
    /\ waf.pc = "done"
    /\ wafCfg.package_id = "" /\ CfgMode # "" /\ CfgGroupID = ""
    /\ Len(ListWAFRules("p1")) = 1 /\ Len(ListWAFRules("p2")) = 1
    /\ Len(waf.rules) = 1 /\ waf.rules[1].package_id = "p2"
    /\ waf.id = <<waf.rules[1].id>>

\* The filter block holds a description that is no valid regular expression.
BadRegexp ==
    /\ CfgHas("description")
    /\ ~CompileOK(wafCfg.filter[1]["description"])

\* C20: a read whose filter description is no valid regular expression ends
\* with that error before any API call; a read ends with an error otherwise
\* only when its last API call, ListWAFPackages or a ListWAFRules, failed; a
\* read that ended with an error has set neither rules nor the ID, whatever
\* rules it had collected; and rules and the ID are set only by a read that
\* ended without error.
C20_ErrorsSetNothing ==
    /\ BadRegexp => waf.pc \in {"start", "error"} /\ waf.calls = <<>>
    /\ waf.pc = "error" <=> waf.err # ""
    /\ waf.pc = "error" =>
          /\ ~waf.rulesSet /\ ~waf.idSet
          /\ waf.rules = <<>> /\ waf.id = <<>>
          /\ waf.err = "regexp" <=> BadRegexp
          /\ waf.err # "regexp" =>
                /\ waf.calls # <<>>
                /\ waf.calls[Len(waf.calls)][1] = waf.err
                /\ waf.err = "ListWAFPackages" => Len(waf.calls) = 1
    /\ (waf.rulesSet \/ waf.idSet) => waf.pc = "done"

\* A read that collected a rule in the first package and then failed to list
\* the second: an error, and neither rules nor the ID set.
C20_Witness ==
    /\ waf.pc = "error"
    /\ waf.err = "ListWAFRules"
    /\ Len(ListedPkgs) = 2
    /\ Len(waf.ruleDetails) = 1
    /\ ~waf.rulesSet /\ ~waf.idSet

\* A read with an invalid description that ended with the error without any
\* call.
C20_WitnessRegexp ==
    /\ waf.pc = "error"
    /\ waf.err = "regexp"
    /\ waf.calls = <<>>
    /\ wafCfg.package_id = ""

(***************************************************************************)
(* TransformAccessGroupForSchema: properties                               *)
(***************************************************************************)

Transformed == tout.pc = "transformed"

\* The values of the conditions of list kind k in the input, in input order.
ValuesOfKind(input, k) ==
    LET sel == SelectSeq(input, LAMBDA c : c.k = k)
    IN  [i \in 1..Len(sel) |-> sel[i].v[FieldOf[k]]]

EntriesOf(data, k) == {i \in 1..Len(data) : data[i].k = k}

\* C7 as stated: every kind appears in at most one entry of the output, and the
\* entry of a multi-valued kind holds every value of that kind from the input,
\* in input order.
C7_EveryKindMerged ==
    Transformed =>
        /\ \A i, j \in 1..Len(tout.data) : tout.data[i].k = tout.data[j].k => i = j
        /\ \A k \in ListKinds :
              \A i \in EntriesOf(tout.data, k) : tout.data[i].v = ValuesOfKind(tin, k)

\* C7, amended: every kind other than everyone, any_valid_service_token and
\* certificate appears in at most one entry of the output, and a multi-valued
\* kind with a condition in the input has exactly one entry, holding every value
\* of that kind from the input, in input order.
C7_AccumulatedKindsMerged ==
    Transformed =>
        /\ \A i, j \in 1..Len(tout.data) :
              (tout.data[i].k = tout.data[j].k /\ tout.data[i].k \notin BoolKinds) => i = j
        /\ \A k \in ListKinds :
              /\ Cardinality(EntriesOf(tout.data, k)) =
                    IF ValuesOfKind(tin, k) = <<>> THEN 0 ELSE 1
              /\ \A i \in EntriesOf(tout.data, k) : tout.data[i].v = ValuesOfKind(tin, k)

\* Two email conditions with different values were merged into one entry that
\* keeps their order.
C7_Witness ==
    /\ Transformed
    /\ Len(tin) = 2 /\ tin[1].k = "email" /\ tin[2].k = "email"
    /\ \E i \in EntriesOf(tout.data, "email") : tout.data[i].v = <<"b", "a">>

\* The inputs that hold the conditions of input in another order.
Reorderings(input) ==
    LET n == Len(input)
        bij == {f \in [1..n -> 1..n] : \A i, j \in 1..n : f[i] = f[j] => i = j}
    IN  {[i \in 1..n |-> input[f[i]]] : f \in bij}

KindsOf(data) == [i \in 1..Len(data) |-> data[i].k]

\* C8 as stated: two inputs that are permutations of each other's conditions
\* give outputs with the same sequence of kinds.
C8_OrderIndependentOfInput ==
    Transformed =>
        \A q \in Reorderings(tin) :
            KindsOf(TransformAccessGroupForSchema(q)) = KindsOf(tout.data)

\* The place of each accumulated kind in the emitting code.
Rank ==
    [group |-> 15, email |-> 1, email_domain |-> 2, ip |-> 3,
     service_token |-> 4, geo |-> 7, login_method |-> 8, device_posture |-> 16,
     common_name |-> 5, auth_method |-> 6, okta |-> 9, gsuite |-> 10, saml |-> 13,
     external_evaluation |-> 14, github |-> 11, azure |-> 12]

\* The entries of boolean kind come first and the others follow in rank order.
InEmitOrder(data) ==
    \A i, j \in 1..Len(data) :
        i < j =>
            /\ data[j].k \in BoolKinds => data[i].k \in BoolKinds
            /\ (data[i].k \notin BoolKinds /\ data[j].k \notin BoolKinds)
                  => Rank[data[i].k] < Rank[data[j].k]

\* The boolean kinds of the conditions of input, in input order.
BoolKindsIn(input) ==
    KindsOf(SelectSeq(input, LAMBDA c : c.k \in BoolKinds))

\* C8, amended: whatever the order of the input conditions, the entries of the
\* kinds other than everyone, any_valid_service_token and certificate appear in
\* the order of the emitting code, after the entries of those three kinds, which
\* appear in the order of their conditions in the input.
C8_FixedOrderOfAccumulatedKinds ==
    Transformed =>
        /\ InEmitOrder(tout.data)
        /\ \A q \in Reorderings(tin) :
              LET out == TransformAccessGroupForSchema(q)
              IN  /\ InEmitOrder(out)
                  /\ KindsOf(SelectSeq(out, LAMBDA e : e.k \in BoolKinds)) = BoolKindsIn(q)

\* An input whose conditions are in the reverse of the emit order: ip, then
\* email.
C8_Witness ==
    /\ Transformed
    /\ Len(tin) = 2 /\ tin[1].k = "ip" /\ tin[2].k = "email"
    /\ KindsOf(tout.data) = <<"email", "ip">>

\* The key of the API form that feeds the entries of a schema kind.
JSONKey(kind) ==
    IF kind = "github" THEN "github-organization"
    ELSE IF kind = "azure" THEN "azureAD" ELSE kind

\* The condition gives its kind's accumulators a non-empty value.
NonEmptyCond(c) ==
    CASE c.k \in StringKinds -> c.v[FieldOf[c.k]] # ""
      [] c.k \in {"okta", "gsuite", "azureAD"} -> c.v["identity_provider_id"] # ""
      [] c.k = "github-organization" ->
            c.v["identity_provider_id"] # "" /\ c.v["name"] # ""
      [] c.k = "saml" -> c.v["attribute_name"] # "" /\ c.v["attribute_value"] # ""
      [] c.k = "external_evaluation" -> c.v["evaluate_url"] # "" /\ c.v["keys_url"] # ""
      [] OTHER -> TRUE

\* C9: every entry of the output is of a kind of which the input holds a
\* condition with a non-empty value, and an input that is empty or holds only
\* unrecognised keys gives an empty output.
C9_EntriesOnlyForNonEmpty ==
    Transformed =>
        /\ \A i \in 1..Len(tout.data) :
              \E j \in 1..Len(tin) :
                  tin[j].k = JSONKey(tout.data[i].k) /\ NonEmptyCond(tin[j])
        /\ (\A j \in 1..Len(tin) : tin[j].k = "unknown_kind") => tout.data = <<>>

\* An input with an empty common_name and an email: only the email is emitted.
C9_Witness ==
    /\ Transformed
    /\ Len(tin) = 2
    /\ tin[1].k = "common_name" /\ tin[1].v["common_name"] = ""
    /\ tin[2].k = "email"
    /\ KindsOf(tout.data) = <<"email">>

(***************************************************************************)
(* BuildAccessGroupCondition: properties                                   *)
(***************************************************************************)

\* m[g] is a list of strings.
IsStrList(m, g) ==
    /\ HasList(m, g)
    /\ \A i \in 1..Len(m[g].v) : m[g].v[i].t = "string"

\* The value has the shape the schema gives the kind: a boolean, a string, a
\* list of strings, or a list of blocks holding every field of the kind.
ShapeOK(kind, val) ==
    IF kind \in BoolKinds THEN val.t = "bool"
    ELSE IF kind \in StringKinds THEN val.t = "string"
    ELSE IF kind \in ListKinds
    THEN val.t = "list" /\ \A i \in 1..Len(val.v) : val.v[i].t = "string"
    ELSE /\ val.t = "list"
         /\ \A i \in 1..Len(val.v) :
               /\ val.v[i].t = "map"
               /\ \A g \in ListFields[kind] : IsStrList(val.v[i].v, g)
               /\ \A g \in BlockFields[kind] \ ListFields[kind] : HasString(val.v[i].v, g)

WellShaped(block) == \A k \in DOMAIN block : ShapeOK(k, block[k])

Built == tout.pc \in {"built", "roundtrip"}

\* The variants of the result that are of the given struct, in result order.
VariantsOf(group, struct) == SelectSeq(group, LAMBDA x : x.struct = struct)

\* The number of variants a well-formed value of a kind stands for.
RECURSIVE CountCfgs(_, _)
CountCfgs(kind, cfgs) ==
    IF cfgs = <<>> THEN 0
    ELSE CountCfgs(kind, Tail(cfgs)) +
         (IF kind \in ProviderKinds THEN Len(Head(cfgs).v[SubKey[kind]].v)
          ELSE IF kind = "github"
          THEN (IF Len(Head(cfgs).v["teams"].v) > 0 THEN Len(Head(cfgs).v["teams"].v) ELSE 1)
          ELSE 1)

ExpectedCount(kind, val) ==
    IF kind \in BoolKinds THEN (IF val.v THEN 1 ELSE 0)
    ELSE IF kind \in StringKinds THEN (IF val.v = "" THEN 0 ELSE 1)
    ELSE IF kind \in ListKinds THEN Len(val.v)
    ELSE CountCfgs(kind, val.v)

RECURSIVE SumCounts(_, _)
SumCounts(block, kinds) ==
    IF kinds = {} THEN 0
    ELSE LET k == CHOOSE x \in kinds : TRUE
         IN  ExpectedCount(k, block[k]) + SumCounts(block, kinds \ {k})

\* C10: for each generic kind of the block, the variants of that kind in the
\* result are one per value of its list, each holding that value, in the order
\* of the values; and the result holds as many variants as its kinds stand for
\* together.
C10_OneVariantPerValue ==
    (Built /\ WellShaped(tin)) =>
        /\ \A k \in DOMAIN tin \cap ListKinds :
              VariantsOf(tout.group, GenericStruct[k][1]) =
                  [i \in 1..Len(tin[k].v) |->
                      Variant(GenericStruct[k][1],
                              (GenericStruct[k][2] :> tin[k].v[i].v))]
        /\ Len(tout.group) = SumCounts(tin, DOMAIN tin)

\* A block whose email list holds two different values, built into two email
\* variants in the order of the values.
C10_Witness ==
    /\ Built
    /\ DOMAIN tin = {"email"}
    /\ tin["email"] = StrList(<<"b", "a">>)
    /\ Len(tout.group) = 2
    /\ tout.group[1].f["Email"] = "b" /\ tout.group[2].f["Email"] = "a"

\* BuildAccessGroupCondition has run on the block, to its end or to a panic.
BuildRan == tout.pc \in {"built", "roundtrip", "panic"}

\* C11 as stated: a block holding a value of the wrong shape, of whatever
\* kind, makes BuildAccessGroupCondition crash.
C11_MalformedCrashes ==
    (BuildRan /\ ~WellShaped(tin)) => tout.pc = "panic"

\* A type assertion of the code fails on the value: a common_name or
\* auth_method that is no string, a list kind that is no list of strings, a
\* kind made of blocks that is no list of maps, a block whose list field is no
\* list of strings, a block whose string field is missing or no string (for
\* gsuite, azure and okta only when the block's list holds a value, since the
\* field is read once per value).
FailsAssertion(kind, val) ==
    IF kind \in BoolKinds THEN FALSE
    ELSE IF kind \in StringKinds THEN val.t # "string"
    ELSE IF kind \in ListKinds
    THEN val.t # "list" \/ \E i \in 1..Len(val.v) : val.v[i].t # "string"
    ELSE \/ val.t # "list"
         \/ \E i \in 1..Len(val.v) :
               \/ val.v[i].t # "map"
               \/ \E g \in ListFields[kind] : ~IsStrList(val.v[i].v, g)
               \/ /\ \E g \in BlockFields[kind] \ ListFields[kind] :
                        ~HasString(val.v[i].v, g)
                  /\ kind \in ProviderKinds => val.v[i].v[SubKey[kind]].v # <<>>

\* The struct BuildAccessGroupCondition builds for a boolean kind.
FlagStruct ==
    [everyone |-> "AccessGroupEveryone",
     any_valid_service_token |-> "AccessGroupAnyValidServiceToken",
     certificate |-> "AccessGroupCertificate"]

\* C11, amended: BuildAccessGroupCondition crashes exactly when a type
\* assertion fails on a value of the block; a value of everyone,
\* any_valid_service_token or certificate that is no boolean is no crash and
\* gives no variant.
C11_FailedAssertionsCrash ==
    BuildRan =>
        /\ tout.pc = "panic" <=> \E k \in DOMAIN tin : FailsAssertion(k, tin[k])
        /\ tout.pc # "panic" =>
              \A k \in DOMAIN tin \cap BoolKinds :
                  tin[k].t # "bool" => VariantsOf(tout.group, FlagStruct[k]) = <<>>

\* A crash on an okta block that lacks identity_provider_id, reached after the
\* email values of the block were built.
C11_Witness ==
    /\ tout.pc = "panic"
    /\ tout.order = <<"email", "okta">>
    /\ tin["okta"].t = "list" /\ Len(tin["okta"].v) = 1
    /\ tin["okta"].v[1].t = "map"
    /\ "identity_provider_id" \notin DOMAIN tin["okta"].v[1].v
    /\ IsStrList(tin["okta"].v[1].v, "name") /\ tin["okta"].v[1].v["name"].v # <<>>

\* A value of the schema form without its dynamic types.
RECURSIVE Untag(_)
Untag(x) ==
    IF x.t = "list" THEN [i \in 1..Len(x.v) |-> Untag(x.v[i])]
    ELSE IF x.t = "map" THEN [g \in DOMAIN x.v |-> Untag(x.v[g])]
    ELSE x.v

\* The value stands for no condition: false, the empty string, an empty list.
IsZero(val) ==
    \/ val.t = "bool" /\ val.v = FALSE
    \/ val.t = "string" /\ val.v = ""
    \/ val.t = "list" /\ val.v = <<>>

\* The blocks in which every kind made of provider blocks holds at most one
\* block, and every gsuite, azure and okta block at least one sub-value.
OneBlockPerKind(block) ==
    \A k \in DOMAIN block \ (BoolKinds \cup StringKinds \cup ListKinds) :
        /\ Len(block[k].v) <= 1
        /\ (k \in ProviderKinds /\ Len(block[k].v) = 1) =>
              Len(block[k].v[1].v[SubKey[k]].v) > 0

\* The schema form gives kind k the value it has in the block.
ComesBack(block, data, k) ==
    IF IsZero(block[k]) THEN EntriesOf(data, k) = {}
    ELSE /\ Cardinality(EntriesOf(data, k)) = 1
         /\ \A i \in EntriesOf(data, k) : data[i].v = Untag(block[k])

\* C1: the output of BuildAccessGroupCondition, in its API form, given to
\* TransformAccessGroupForSchema comes back as the kinds of the block with the
\* values of the block, the identity_provider_id of the provider kinds
\* included (stated for the blocks with one provider block per kind).
C1_RoundTrip ==
    (tout.pc = "roundtrip" /\ WellShaped(tin) /\ OneBlockPerKind(tin)) =>
        /\ \A k \in DOMAIN tin : ComesBack(tin, tout.data, k)
        /\ \A i \in 1..Len(tout.data) : tout.data[i].k \in DOMAIN tin

\* The round trip of C1 for the kinds other than saml, whose
\* identity_provider_id TransformAccessGroupForSchema does not emit.
RoundTripButSaml ==
    (tout.pc = "roundtrip" /\ WellShaped(tin) /\ OneBlockPerKind(tin)) =>
        /\ \A k \in DOMAIN tin \ {"saml"} : ComesBack(tin, tout.data, k)
        /\ \A i \in 1..Len(tout.data) : tout.data[i].k \in DOMAIN tin

(***************************************************************************)
(* Properties of the Access Group resource handlers                        *)
(***************************************************************************)

\* The API functions resourceCloudflareAccessGroupRead calls.
ReadFns == {"AccessGroup", "ZoneLevelAccessGroup"}

\* The call recorded in l had a read of the Access Group fail with a 404.
ReadNotFound(l) ==
    \E i \in 1..Len(l.errs) : l.errs[i].fn \in ReadFns /\ IsNotFound(l.errs[i].status)

\* C2: when the remote read of an Access Group fails with a 404,
\* resourceCloudflareAccessGroupRead clears the ID of the resource and returns
\* no error, and sets none of name, require, exclude, include: the step leaves
\* every attribute of the resource as it was.
C2_NotFoundClearsID ==
    [][(last'.op = "Read" /\ ReadNotFound(last')) =>
          /\ d' = [d EXCEPT !.id = EmptyID]
          /\ ~last'.ret.err
          /\ last'.sets = <<>>]_vars

\* A Read of a resource with an ID and a name whose remote read failed with a
\* 404: the ID is cleared and the name is still there.
C2_Witness ==
    /\ last.op = "Read"
    /\ ReadNotFound(last)
    /\ last.calls[1].arg # EmptyID
    /\ d.id = EmptyID
    /\ d.name # ""
    /\ ~last.ret.err

\* C3: every error of a remote call made during a handler, other than a 404 of
\* the read, is returned to the caller as an error, the errors of the read at
\* the end of a handler included.
C3_AllOtherErrorsReported ==
    (\E i \in 1..Len(last.errs) :
        ~(last.errs[i].fn \in ReadFns /\ IsNotFound(last.errs[i].status)))
    => last.ret.err

\* The errors of C3 that Read, Create and Update report, and that Delete and
\* Import report when the error is not of the read at their end.
ErrorsReportedButTrailingRead ==
    (\E i \in 1..Len(last.errs) :
        /\ ~(last.errs[i].fn \in ReadFns /\ IsNotFound(last.errs[i].status))
        /\ ~(last.op \in {"Delete", "Import"} /\ last.errs[i].fn \in ReadFns))
    => last.ret.err

\* The account-level and the zone-level API operation of each handler.
AccountFns ==
    [Read |-> "AccessGroup", Create |-> "CreateAccessGroup",
     Update |-> "UpdateAccessGroup", Delete |-> "DeleteAccessGroup"]
ZoneFns ==
    [Read |-> "ZoneLevelAccessGroup", Create |-> "CreateZoneLevelAccessGroup",
     Update |-> "UpdateZoneLevelAccessGroup", Delete |-> "DeleteZoneLevelAccessGroup"]

\* The operations of the level the identifier selects.
FnsFor(identifier) == IF identifier.Type = AccountType THEN AccountFns ELSE ZoneFns

\* C12: a handler called with a resolved identifier calls its own operation
\* first, at the account level when the identifier is of account type and at
\* the zone level otherwise; every call it makes is of that level and carries
\* the identifier's value, so no invocation calls both levels.
C12_LevelFollowsIdentifier ==
    /\ \A i \in 1..Len(last.calls) :
          /\ last.calls[i].fn \in {FnsFor(last.ident)[o] : o \in DOMAIN AccountFns}
          /\ last.calls[i].scope = last.ident.Value
    /\ (last.op \in DOMAIN AccountFns /\ ~last.ident.err) =>
          /\ Len(last.calls) >= 1
          /\ last.calls[1].fn = FnsFor(last.ident)[last.op]

\* A Delete with a zone identifier that made the zone-level delete and the
\* zone-level read.
C12_Witness ==
    /\ last.op = "Delete"
    /\ last.ident.Type = ZoneType
    /\ Len(last.calls) = 2
    /\ last.calls[1].fn = "DeleteZoneLevelAccessGroup"
    /\ last.calls[2].fn = "ZoneLevelAccessGroup"

\* The text holds a "/".
HasSlash(id) == \E i \in 1..Len(id) : id[i] = "/"

\* C15: Import of an ID without "/" returns an error, makes no call and leaves
\* the resource as it was given; Import of any other ID stores the text before
\* the first "/" as account_id and makes the text after it the ID of the
\* resource, which is the ID the read is made for and the ID the resource
\* keeps unless that read receives a 404.
C15_ImportSplitsAtFirstSlash ==
    last.op = "Import" =>
        /\ ~HasSlash(last.id) =>
              /\ last.ret.err
              /\ last.calls = <<>> /\ last.sets = <<>>
              /\ d = [NewResource EXCEPT !.id = last.id]
        /\ HasSlash(last.id) =>
              /\ ~HasSlash(d.account_id)
              /\ "account_id" \in {last.sets[i] : i \in 1..Len(last.sets)}
              /\ LET rest == SubSeq(last.id, Len(d.account_id) + 2, Len(last.id)) IN
                    /\ last.id = d.account_id \o <<"/">> \o rest
                    /\ \A i \in 1..Len(last.calls) : last.calls[i].arg = rest
                    /\ ~last.ident.err => Len(last.calls) = 1
                    /\ d.id = IF ReadNotFound(last) THEN EmptyID ELSE rest

\* An Import of "a/g/h" whose read succeeded: the account is "a" and the ID
\* "g/h".
C15_Witness ==
    /\ last.op = "Import"
    /\ last.id = <<"a", "/", "g", "/", "h">>
    /\ d.account_id = <<"a">>
    /\ d.id = <<"g", "/", "h">>
    /\ d.name = "r1"

\* An Import of "g", which holds no "/": an error and nothing else.
C15_WitnessInvalid ==
    /\ last.op = "Import"
    /\ last.id = <<"g">>
    /\ last.ret.err
    /\ d.account_id = EmptyID

\* The outcome of a read of the resource res with the ID id.
ReadOf(res, id, l) ==
    resourceCloudflareAccessGroupRead([res EXCEPT !.id = id], l.ident, l.readResp)

\* C16: a Create whose remote create call fails returns an error, leaves the
\* resource and its ID as they were and makes no read; a Create whose remote
\* create call succeeds makes a read for the ID of the create response, and
\* the resource and the result of Create are those of that read.
C16_CreateSetsIDAfterSuccess ==
    [][(last'.op = "Create" /\ ~last'.ident.err) =>
          /\ Len(last'.calls) >= 1
          /\ last'.calls[1].fn = FnsFor(last'.ident)["Create"]
          /\ last'.resp.status # "ok" =>
                /\ last'.ret.err
                /\ d' = d
                /\ Len(last'.calls) = 1
          /\ last'.resp.status = "ok" =>
                /\ Len(last'.calls) = 2
                /\ last'.calls[2] =
                      ApiCall(FnsFor(last'.ident)["Read"], last'.ident.Value,
                              last'.resp.group.ID)
                /\ d' = ReadOf(d, last'.resp.group.ID, last').d
                /\ last'.ret = ReadOf(d, last'.resp.group.ID, last').ret]_vars

\* A Create on a new resource whose create response carried the ID "h" and
\* whose read succeeded: the resource has the ID "h" and the attributes read.
C16_Witness ==
    /\ last.op = "Create"
    /\ last.id = EmptyID
    /\ last.resp.status = "ok" /\ last.resp.group.ID = <<"h">>
    /\ last.readResp.status = "ok"
    /\ d.id = <<"h">>
    /\ d.name = "r1"
    /\ ~last.ret.err

\* A Create on a new resource whose create call failed: an error, no ID.
C16_WitnessFailed ==
    /\ last.op = "Create"
    /\ last.id = EmptyID
    /\ last.resp.status = "500"
    /\ last.ret.err
    /\ d.id = EmptyID
    /\ Len(last.calls) = 1

\* C17: a step of Create, Read, Update or Delete changes the ID of the
\* resource only by a successful remote create, to the ID of the create
\* response, or by a read that received a 404, to the empty ID; Update and
\* Delete leave the ID as it was or cleared by their read, whatever ID the
\* update response carries.
C17_IDChangesOnlyByCreateOr404 ==
    [][(last'.op # "Import" /\ d'.id # d.id) =>
          \/ /\ last'.op = "Create"
             /\ last'.resp.status = "ok"
             /\ d'.id = last'.resp.group.ID
          \/ /\ ReadNotFound(last')
             /\ d'.id = EmptyID]_vars

\* An Update of the resource "g" whose response carried the ID "h" and whose
\* read succeeded: the resource is still "g".
C17_Witness ==
    /\ last.op = "Update"
    /\ last.id = <<"g">>
    /\ last.resp.status = "ok" /\ last.resp.group.ID = <<"h">>
    /\ last.readResp.status = "ok"
    /\ d.id = <<"g">>

\* C18: a Delete whose remote delete call succeeds returns no error whatever
\* its read gives: it makes one read, for the ID of the resource, and the
\* resource afterwards is the one that read leaves, so the ID of a resource
\* that had one is empty exactly when the read received a 404.  A Delete whose
\* remote delete call fails returns an error, makes no read and leaves the
\* resource and its ID as they were.
C18_DeleteIgnoresRead ==
    [][(last'.op = "Delete" /\ ~last'.ident.err) =>
          /\ last'.resp.status = "ok" =>
                /\ ~last'.ret.err
                /\ Len(last'.calls) = 2
                /\ last'.calls[2] =
                      ApiCall(FnsFor(last'.ident)["Read"], last'.ident.Value, d.id)
                /\ d' = ReadOf(d, d.id, last').d
                /\ d.id # EmptyID => (d'.id = EmptyID <=> ReadNotFound(last'))
          /\ last'.resp.status # "ok" =>
                /\ last'.ret.err
                /\ Len(last'.calls) = 1
                /\ d' = d]_vars

\* A Delete of the resource "g" whose delete call succeeded and whose read
\* failed with a 500: no error is returned and the resource is still "g".
C18_Witness ==
    /\ last.op = "Delete"
    /\ last.id = <<"g">>
    /\ last.resp.status = "ok"
    /\ last.readResp.status = "500"
    /\ ~last.ret.err
    /\ d.id = <<"g">>

\* A Delete of the resource "g" whose read received a 404: the ID is empty.
C18_WitnessGone ==
    /\ last.op = "Delete"
    /\ last.id = <<"g">>
    /\ last.resp.status = "ok"
    /\ last.readResp.status = "404"
    /\ ~last.ret.err
    /\ d.id = EmptyID

\* C19: an Update whose remote update call succeeds with a response of empty
\* ID returns an error, makes no read and leaves the resource (ID, name and
\* condition lists) as it was; with a response of non-empty ID it makes a
\* read for the ID of the resource, and the resource and the result of Update
\* are those of that read.
C19_UpdateNeedsResponseID ==
    [][(last'.op = "Update" /\ ~last'.ident.err /\ last'.resp.status = "ok") =>
          /\ last'.resp.group.ID = EmptyID =>
                /\ last'.ret.err
                /\ Len(last'.calls) = 1
                /\ last'.calls[1].fn = FnsFor(last'.ident)["Update"]
                /\ d' = d
          /\ last'.resp.group.ID # EmptyID =>
                /\ Len(last'.calls) = 2
                /\ last'.calls[2] =
                      ApiCall(FnsFor(last'.ident)["Read"], last'.ident.Value, d.id)
                /\ d' = ReadOf(d, d.id, last').d
                /\ last'.ret = ReadOf(d, d.id, last').ret]_vars

\* An Update of the resource "g", which has a name and conditions, whose
\* response carried an empty ID: an error, one call, the resource as before.
C19_Witness ==
    /\ last.op = "Update"
    /\ last.id = <<"g">>
    /\ last.resp.status = "ok" /\ last.resp.group.ID = EmptyID
    /\ last.ret.err
    /\ Len(last.calls) = 1
    /\ d.id = <<"g">> /\ d.name = "r1" /\ d.include # <<>>

\* An Update of the resource "g" whose response carried the ID "g" and whose
\* read failed with a 500: the error of the read is the result.
C19_WitnessRead ==
    /\ last.op = "Update"
    /\ last.id = <<"g">>
    /\ last.resp.status = "ok" /\ last.resp.group.ID = <<"g">>
    /\ last.readResp.status = "500"
    /\ last.ret.err
    /\ Len(last.calls) = 2

\* C21: a Read whose remote read succeeds sets name to the remote name, and
\* require, exclude and include to TransformAccessGroupForSchema of the
\* remote Require, Exclude and Include lists, each from its own list; it
\* returns no error and leaves the ID and account_id of the resource as they
\* were.
C21_ReadCopiesRemoteGroup ==
    [][(last'.op = "Read" /\ ~last'.ident.err /\ last'.readResp.status = "ok") =>
          LET g == last'.readResp.group
          IN  /\ d'.name = g.Name
              /\ d'.require = TransformAccessGroupForSchema(g.Require)
              /\ d'.exclude = TransformAccessGroupForSchema(g.Exclude)
              /\ d'.include = TransformAccessGroupForSchema(g.Include)
              /\ d'.id = d.id
              /\ d'.account_id = d.account_id
              /\ ~last'.ret.err
              /\ last'.sets = <<"name", "require", "exclude", "include">>]_vars

\* A Read of the resource "h" whose remote read answered with a group of ID
\* "g" and three different lists: the resource holds the three lists, each in
\* its own attribute, and is still "h".
C21_Witness ==
    /\ last.op = "Read"
    /\ last.readResp.status = "ok"
    /\ last.id = <<"h">> /\ d.id = <<"h">>
    /\ last.readResp.group.ID = <<"g">>
    /\ d.name = "r1"
    /\ d.require = <<Entry("email", <<"a">>)>>
    /\ d.exclude = <<Entry("ip", <<"b", "a">>)>>
    /\ Len(d.include) = 1 /\ d.include[1].k = "okta"

\* The conditions a request holds for a schema list: none when the list has no
\* non-nil block, else those built from its last non-nil block alone, in one
\* of the orders its keys may be visited in.
FromLastBlock(conds, blocks) ==
    LET idx == {i \in 1..Len(blocks) : blocks[i].t # "nil"}
    IN  IF idx = {} THEN conds = <<>>
        ELSE LET b == blocks[CHOOSE i \in idx : \A j \in idx : j <= i].v
             IN  \E ord \in RangeOrders(b) :
                    conds = BuildAccessGroupCondition(b, ord).out

\* C22: in the request of a Create or an Update, each of Exclude, Require and
\* Include holds the conditions of the last non-nil block of its own schema
\* list and nothing of the earlier blocks or of the other lists, and is empty
\* when its list has no non-nil block.
C22_RequestFromLastBlocks ==
    [][(last'.op \in {"Create", "Update"} /\ Len(last'.calls) > 0) =>
          LET request == last'.calls[1].arg
          IN  /\ FromLastBlock(request.Exclude, last'.cfg.exclude)
              /\ FromLastBlock(request.Require, last'.cfg.require)
              /\ FromLastBlock(request.Include, last'.cfg.include)
              /\ request.Name = last'.cfg.name]_vars

\* A Create with two include blocks, an exclude list that ends with a nil
\* block and a require list of one nil block: Include holds the two conditions
\* of the second include block, Exclude those of its first block, Require
\* nothing.
C22_Witness ==
    /\ last.op = "Create"
    /\ Len(last.calls) > 0
    /\ last.cfg.include = <<Map(BlockA), Map(BlockB)>>
    /\ last.cfg.exclude = <<Map(BlockB), Nil>>
    /\ last.cfg.require = <<Nil>>
    /\ LET request == last.calls[1].arg
       IN  /\ request.Include = <<Variant("AccessGroupEveryone", NoFields),
                                  Variant("AccessGroupIP", [IP |-> "b"])>>
           /\ Len(request.Exclude) = 2
           /\ request.Require = <<>>

\* The struct of the variants of each provider kind and its field for the
\* sub-value.
ProviderStruct ==
    [okta |-> <<"AccessGroupOkta", "Name">>,
     gsuite |-> <<"AccessGroupGSuite", "Email">>,
     azure |-> <<"AccessGroupAzure", "ID">>]

\* One variant per sub-value of each block of a list of provider blocks, with
\* the identity_provider_id of the block, block after block.
PerSubValue(k, cfgs) ==
    Flatten([n \in 1..Len(cfgs) |->
        [i \in 1..Len(cfgs[n].v[SubKey[k]].v) |->
            Variant(ProviderStruct[k][1],
                    (ProviderStruct[k][2] :> cfgs[n].v[SubKey[k]].v[i].v) @@
                    ("IdentityProviderID" :> cfgs[n].v["identity_provider_id"].v))]])

\* C23: for gsuite, azure and okta the variants of the kind in the result are
\* one per sub-value of each block, in the order of the blocks and of their
\* sub-values, each with the identity_provider_id of its own block; a block
\* with no sub-value gives none.
C23_OneVariantPerSubValue ==
    (Built /\ WellShaped(tin)) =>
        \A k \in DOMAIN tin \cap ProviderKinds :
            VariantsOf(tout.group, ProviderStruct[k][1]) = PerSubValue(k, tin[k].v)

\* Two okta blocks of different providers, the first with two names and the
\* second with one: three variants, two of provider "p" and one of "q".
C23_Witness ==
    /\ Built
    /\ DOMAIN tin = {"okta"}
    /\ Len(tin["okta"].v) = 2
    /\ tin["okta"].v[1].v["identity_provider_id"] = Str("p")
    /\ tin["okta"].v[2].v["identity_provider_id"] = Str("q")
    /\ tin["okta"].v[1].v["name"] = StrList(<<"a", "b">>)
    /\ tin["okta"].v[2].v["name"] = StrList(<<"a">>)
    /\ tout.group =
          <<Variant("AccessGroupOkta", [Name |-> "a", IdentityProviderID |-> "p"]),
            Variant("AccessGroupOkta", [Name |-> "b", IdentityProviderID |-> "p"]),
            Variant("AccessGroupOkta", [Name |-> "a", IdentityProviderID |-> "q"])>>

\* A gsuite block with an empty email list, alone in its list: no variant.
C23_WitnessEmpty ==
    /\ Built
    /\ DOMAIN tin = {"gsuite"}
    /\ Len(tin["gsuite"].v) = 1
    /\ tin["gsuite"].v[1].v["email"] = StrList(<<>>)
    /\ tout.group = <<>>

\* The variants a list of github blocks stands for: for each block in turn,
\* one per team, or one with no team when the block has no team, each with the
\* organisation name and the identity_provider_id of the block.
PerTeam(cfgs) ==
    Flatten([n \in 1..Len(cfgs) |->
        LET teams == cfgs[n].v["teams"].v
            of(team) == Variant("AccessGroupGitHub",
                            [Name |-> cfgs[n].v["name"].v, IdentityProviderID |-> cfgs[n].v["identity_provider_id"].v,
                             Team |-> team])
        IN  IF teams = <<>> THEN <<of("")>>
            ELSE [i \in 1..Len(teams) |-> of(teams[i].v)]])

\* C24: the github variants of the result are, for each github block in turn,
\* one per team of the block when it has teams and exactly one with no team
\* when it has none; each carries the organisation name and the
\* identity_provider_id of its block.
C24_GithubPerTeam ==
    (Built /\ WellShaped(tin) /\ "github" \in DOMAIN tin) =>
        VariantsOf(tout.group, "AccessGroupGitHub") = PerTeam(tin["github"].v)

\* A github block of organisation "n" with two teams followed by one of
\* organisation "m", another provider and no team: three variants.
C24_Witness ==
    /\ Built
    /\ DOMAIN tin = {"github"}
    /\ Len(tin["github"].v) = 2
    /\ tin["github"].v[1].v["teams"] = StrList(<<"a", "b">>)
    /\ tin["github"].v[2].v["teams"] = StrList(<<>>)
    /\ tout.group =
          <<Variant("AccessGroupGitHub",
                    [Name |-> "n", IdentityProviderID |-> "p", Team |-> "a"]),
            Variant("AccessGroupGitHub",
                    [Name |-> "n", IdentityProviderID |-> "p", Team |-> "b"]),
            Variant("AccessGroupGitHub",
                    [Name |-> "m", IdentityProviderID |-> "q", Team |-> ""])>>

\* The struct BuildAccessGroupCondition builds for a string kind, and its
\* field.
StringStruct ==
    [common_name |-> <<"AccessGroupCertificateCommonName", "CommonName">>,
     auth_method |-> <<"AccessGroupAuthMethod", "AuthMethod">>]

\* C25: the result holds a variant of everyone, any_valid_service_token or
\* certificate exactly when the value of the kind is true, and one of
\* common_name or auth_method, holding the value, exactly when the value is a
\* non-empty string; false and the empty string add nothing, and a value of
\* common_name or auth_method that is no string gives no result at all.
C25_FlagsAndStrings ==
    /\ Built =>
          \A k \in DOMAIN tin :
              /\ k \in BoolKinds =>
                    VariantsOf(tout.group, FlagStruct[k]) =
                        (IF tin[k] = Bool(TRUE) THEN <<Variant(FlagStruct[k], NoFields)>>
                         ELSE <<>>)
              /\ k \in StringKinds =>
                    /\ tin[k].t = "string"
                    /\ VariantsOf(tout.group, StringStruct[k][1]) =
                          (IF tin[k].v # ""
                           THEN <<Variant(StringStruct[k][1],
                                          (StringStruct[k][2] :> tin[k].v))>>
                           ELSE <<>>)
    /\ (BuildRan /\ \E k \in DOMAIN tin \cap StringKinds : tin[k].t # "string") =>
          tout.pc = "panic" /\ tout.group = <<>>

\* A block with everyone true and a common_name: one variant of each.
C25_Witness ==
    /\ Built
    /\ DOMAIN tin = {"everyone", "common_name"}
    /\ tin["everyone"] = Bool(TRUE)
    /\ tin["common_name"] = Str("a")
    /\ Len(tout.group) = 2
    /\ VariantsOf(tout.group, "AccessGroupEveryone") # <<>>
    /\ VariantsOf(tout.group, "AccessGroupCertificateCommonName") =
          <<Variant("AccessGroupCertificateCommonName", [CommonName |-> "a"])>>

\* A block with certificate false and an empty auth_method: nothing is built.
C25_WitnessNothing ==
    /\ Built
    /\ DOMAIN tin = {"certificate", "auth_method"}
    /\ tin["certificate"] = Bool(FALSE)
    /\ tin["auth_method"] = Str("")
    /\ tout.group = <<>>

\* The structs of the variants of a result.
StructsOf(group) == {group[i].struct : i \in 1..Len(group)}

\* The variants of each struct stand next to each other in the result.
Contiguous(group) ==
    \A i \in 1..Len(group), j \in 1..Len(group), n \in 1..Len(group) :
        (i < j /\ j < n /\ group[i].struct = group[n].struct) =>
            group[j].struct = group[i].struct

\* C26: what BuildAccessGroupCondition returns for the block in any other
\* iteration order of its keys holds, struct by struct, the same variants in
\* the same order as the result at hand, and crashes if and only if the call
\* at hand did; the variants of one kind are next to each other, and are those
\* the kind alone builds, in the order of its values.
C26_OrderOnlyMovesKinds ==
    BuildRan =>
        /\ \A o \in RangeOrders(tin) :
              LET other == BuildAccessGroupCondition(tin, o)
              IN  /\ other.panic <=> tout.pc = "panic"
                  /\ Len(other.out) = Len(tout.group)
                  /\ \A s \in StructsOf(other.out) \cup StructsOf(tout.group) :
                        VariantsOf(other.out, s) = VariantsOf(tout.group, s)
        /\ Contiguous(tout.group)
        /\ Built =>
              \A k \in DOMAIN tin :
                  LET alone == BuildKey(k, tin[k]).out
                  IN  \A s \in StructsOf(alone) :
                         VariantsOf(tout.group, s) = alone

\* A block with two emails and an ip, built with the ip first: the two email
\* variants follow in the order of their values, and the other iteration
\* order gives another sequence.
C26_Witness ==
    /\ Built
    /\ DOMAIN tin = {"email", "ip"}
    /\ tin["email"] = StrList(<<"b", "a">>)
    /\ tout.order = <<"ip", "email">>
    /\ Len(tout.group) = 3
    /\ tout.group[1].struct = "AccessGroupIP"
    /\ tout.group[2].f["Email"] = "b" /\ tout.group[3].f["Email"] = "a"
    /\ BuildAccessGroupCondition(tin, <<"email", "ip">>).out # tout.group

\* The provider kinds of the API form: the kind of the schema form each
\* becomes, and the field holding its sub-value in both forms.
ApiProviderKinds == {"okta", "gsuite", "azureAD"}
SchemaKind == [okta |-> "okta", gsuite |-> "gsuite", azureAD |-> "azure"]
SubField == [okta |-> "name", gsuite |-> "email", azureAD |-> "id"]

\* The conditions of kind k in the input, in input order.
CondsOf(input, k) == SelectSeq(input, LAMBDA c : c.k = k)

\* The one block of the schema form that holds the identity_provider_id of the
\* last condition of kind k and the sub-values of all of them.
MergedBlock(input, k) ==
    LET cs == CondsOf(input, k)
    IN  <<(SubField[k] :> [i \in 1..Len(cs) |-> cs[i].v[SubField[k]]]) @@
          ("identity_provider_id" :> cs[Len(cs)].v["identity_provider_id"])>>

\* The conditions of kind k in the input do not all have the same
\* identity_provider_id.
ProvidersDiffer(input, k) ==
    \E i, j \in 1..Len(CondsOf(input, k)) :
        CondsOf(input, k)[i].v["identity_provider_id"] #
            CondsOf(input, k)[j].v["identity_provider_id"]

\* C27 as stated: when the okta (gsuite, azureAD) conditions of the input have
\* different identity_provider_id values, the output has a single block of
\* the kind, with the identity_provider_id of the last of them and the values
\* of all of them.
C27_LastProviderTakesAll ==
    Transformed =>
        \A k \in ApiProviderKinds :
            ProvidersDiffer(tin, k) =>
                /\ Cardinality(EntriesOf(tout.data, SchemaKind[k])) = 1
                /\ \A i \in EntriesOf(tout.data, SchemaKind[k]) :
                      tout.data[i].v = MergedBlock(tin, k)

\* C27, amended: when the input has okta (gsuite, azureAD) conditions, the
\* output has no block of the kind if the identity_provider_id of the last of
\* them is empty, and otherwise a single block with that identity_provider_id
\* and the values of all of them, whatever their own identity_provider_id.
C27_LastProviderTakesAllUnlessEmpty ==
    Transformed =>
        \A k \in ApiProviderKinds :
            CondsOf(tin, k) # <<>> =>
                LET lastID == CondsOf(tin, k)[Len(CondsOf(tin, k))].v["identity_provider_id"]
                IN  /\ Cardinality(EntriesOf(tout.data, SchemaKind[k])) =
                          IF lastID = "" THEN 0 ELSE 1
                    /\ \A i \in EntriesOf(tout.data, SchemaKind[k]) :
                          tout.data[i].v = MergedBlock(tin, k)

\* An okta condition of provider "p" followed by one of provider "q": one okta
\* block of provider "q" holding both names.
C27_Witness ==
    /\ Transformed
    /\ tin = <<Cond("okta", [name |-> "a", identity_provider_id |-> "p"]),
               Cond("okta", [name |-> "b", identity_provider_id |-> "q"])>>
    /\ tout.data = <<Entry("okta", <<[name |-> <<"a", "b">>,
                                      identity_provider_id |-> "q"]>>)>>

\* An azureAD condition of provider "p" followed by one with an empty
\* identity_provider_id: the output has no azure block.
C27_WitnessEmpty ==
    /\ Transformed
    /\ tin = <<Cond("azureAD", [id |-> "a", identity_provider_id |-> "p"]),
               Cond("azureAD", [id |-> "b", identity_provider_id |-> ""])>>
    /\ tout.data = <<>>

\* The kinds of which TransformAccessGroupForSchema holds one value.
SingleKinds == StringKinds \cup {"saml", "external_evaluation"}

\* The entries of the output whose kind is k, in output order.
EntrySeq(data, k) == SelectSeq(data, LAMBDA e : e.k = k)

\* The entry one condition c of a single-valued kind k gives by itself: none
\* when a value of it is empty.
EntryOfOne(k, c) ==
    IF k \in StringKinds THEN EntryIf(c.v[FieldOf[k]] # "", k, c.v[FieldOf[k]])
    ELSE IF k = "saml"
    THEN EntryIf(c.v["attribute_name"] # "" /\ c.v["attribute_value"] # "", "saml",
                 <<[attribute_name |-> c.v["attribute_name"],
                    attribute_value |-> c.v["attribute_value"]]>>)
    ELSE EntryIf(c.v["evaluate_url"] # "" /\ c.v["keys_url"] # "", "external_evaluation",
                 <<[evaluate_url |-> c.v["evaluate_url"], keys_url |-> c.v["keys_url"]]>>)

\* The input without the conditions of kind k that come before the last one.
OnlyLastOf(input, k) ==
    LET idx == {i \in 1..Len(input) : input[i].k = k}
        keep == {i \in 1..Len(input) : i \in idx => \A j \in idx : j <= i}
        RECURSIVE From(_)
        From(i) == IF i > Len(input) THEN <<>>
                   ELSE (IF i \in keep THEN <<input[i]>> ELSE <<>>) \o From(i + 1)
    IN  From(1)

\* C28: for common_name, auth_method, saml and external_evaluation the entries
\* of the kind in the output are what the last condition of the kind gives by
\* itself, and the whole output is the one of the input without the earlier
\* conditions of the kind; the name of the github block of the output is the
\* name of the last github condition.
C28_LastConditionOnly ==
    Transformed =>
        /\ \A k \in SingleKinds :
              CondsOf(tin, k) # <<>> =>
                  /\ EntrySeq(tout.data, k) =
                        EntryOfOne(k, CondsOf(tin, k)[Len(CondsOf(tin, k))])
                  /\ tout.data = TransformAccessGroupForSchema(OnlyLastOf(tin, k))
        /\ \A i \in EntriesOf(tout.data, "github") :
              LET cs == CondsOf(tin, "github-organization")
              IN  /\ Cardinality(EntriesOf(tout.data, "github")) = 1
                  /\ tout.data[i].v[1].name = cs[Len(cs)].v["name"]
                  /\ tout.data[i].v[1].identity_provider_id =
                        cs[Len(cs)].v["identity_provider_id"]

\* Two common_name conditions with different values: the output holds the
\* second value alone.
C28_Witness ==
    /\ Transformed
    /\ tin = <<Cond("common_name", [common_name |-> "a"]),
               Cond("common_name", [common_name |-> "b"])>>
    /\ tout.data = <<Entry("common_name", "b")>>

\* Two github conditions of different organisations, the first with a team:
\* the block has the name of the second.
C28_WitnessGithub ==
    /\ Transformed
    /\ Len(tin) = 2
    /\ tin[1].k = "github-organization" /\ tin[1].v["name"] = "n"
    /\ "team" \in DOMAIN tin[1].v
    /\ tin[2].k = "github-organization" /\ tin[2].v["name"] = "m"
    /\ Len(tout.data) = 1
    /\ tout.data[1].v[1].name = "m"

\* A saml condition with both attributes followed by one with an empty value:
\* the output has no saml block.
C28_WitnessSaml ==
    /\ Transformed
    /\ Len(tin) = 2
    /\ tin[1].k = "saml" /\ tin[1].v["attribute_name"] = "n"
    /\ tin[1].v["attribute_value"] = "a"
    /\ tin[2].k = "saml" /\ tin[2].v["attribute_value"] = ""
    /\ tout.data = <<>>

\* C29: the output starts with one entry {kind: true} for each condition of
\* kind everyone, any_valid_service_token or certificate in the input, repeats
\* included, in the order of these conditions; every entry after them is of
\* another kind.
C29_FlagsFirstUnmerged ==
    Transformed =>
        LET flags == BoolKindsIn(tin)
        IN  /\ Len(tout.data) >= Len(flags)
            /\ \A i \in 1..Len(flags) : tout.data[i] = Entry(flags[i], TRUE)
            /\ \A i \in (Len(flags) + 1)..Len(tout.data) : tout.data[i].k \notin BoolKinds

\* certificate twice in the input: two certificate entries in the output.
C29_Witness ==
    /\ Transformed
    /\ tin = <<Cond("certificate", NoFields), Cond("certificate", NoFields)>>
    /\ tout.data = <<Entry("certificate", TRUE), Entry("certificate", TRUE)>>

\* An email condition before an everyone condition: the everyone entry comes
\* first in the output.
C29_WitnessFirst ==
    /\ Transformed
    /\ tin = <<Cond("email", [email |-> "a"]), Cond("everyone", NoFields)>>
    /\ tout.data = <<Entry("everyone", TRUE), Entry("email", <<"a">>)>>

\* C30: an Import of an ID that splits in two returns the resource and no
\* error whatever its read does: an identifier that cannot be resolved and a
\* failed remote read are recorded nowhere in the result, a failed read other
\* than a 404 leaves the ID given to the import, and a 404 leaves the resource
\* with an empty ID.
C30_ImportDropsReadResult ==
    [][(last'.op = "Import" /\ HasSlash(last'.id)) =>
          /\ ~last'.ret.err
          /\ last'.ident.err => (last'.calls = <<>> /\ d'.id = SplitN2(last'.id)[2])
          /\ (~last'.ident.err /\ last'.readResp.status = "500") =>
                (last'.errs # <<>> /\ d'.id = SplitN2(last'.id)[2] /\ d'.name = "")
          /\ (~last'.ident.err /\ last'.readResp.status = "404") =>
                (last'.errs # <<>> /\ d'.id = EmptyID)]_vars

\* An Import of "a/g" whose read failed with a 500: no error is returned and
\* the resource is "g" with no name.
C30_Witness ==
    /\ last.op = "Import"
    /\ last.id = <<"a", "/", "g">>
    /\ last.readResp.status = "500"
    /\ Len(last.errs) = 1
    /\ ~last.ret.err
    /\ d.id = <<"g">> /\ d.name = ""

\* An Import of "a/g" whose read got a 404: no error is returned and the
\* resource has an empty ID.
C30_WitnessGone ==
    /\ last.op = "Import"
    /\ last.id = <<"a", "/", "g">>
    /\ last.readResp.status = "404"
    /\ ~last.ret.err
    /\ d.id = EmptyID /\ d.account_id = <<"a">>

====
